---- MODULE Spec2Model ----
(***************************************************************************)
(* A model of scripts/providers_pipeline_google.py: the address-enrichment *)
(* pipeline (rate limiter, cache store, interactive and batch geocoding,   *)
(* taxonomy filter).  Each component has its own variables, initial        *)
(* predicate and next-state relation; a specification runs one component   *)
(* and keeps the variables of the others frozen at their initial value.    *)
(***************************************************************************)
EXTENDS Integers, Sequences, FiniteSets, TLC

VARIABLES
    \* ---- RateLimiter (one instance shared by the calling threads)
    rl_qps,      \* self.qps
    rl_buf,      \* self.buf, the deque of recorded timestamps
    rl_pc,       \* thread -> position inside acquire()
    rl_wake,     \* earliest clock reading at which time.sleep() returns
    rl_clock,    \* what time.time() returns, in ticks
    rl_granted,  \* history: every timestamp acquire() has recorded, in order
    \* ---- interactive geocoding stage (geocode_file, engine google)
    g_df,        \* the input records, each one its addr_key, in file order
    g_saveEvery, \* save_every
    g_workers,   \* workers (max_workers of the pool)
    g_cachePath, \* geocode_file's cache_path argument
    g_files,     \* path -> the cache table stored in that file
    g_cache,     \* the in-memory cache dict: addr_key -> result row
    g_todo,      \* the to-do list of this run, in order
    g_task,      \* addr_key -> the state of its lookup task (future)
    g_consumed,  \* keys whose future the main thread has taken from as_completed
    g_done,      \* done
    g_main,      \* position of the main thread
    g_failedBy,  \* the key whose exception left the loop ("" if none)
    g_acquires,  \* limiter.acquire() calls that have returned, this run
    g_requests,  \* session.get() calls issued, this run
    g_out,       \* rows of the geocoded output file
    g_hist,      \* how the earlier runs ended
    \* ---- cache store (save_cache_safe / save_cache, then load_cache)
    cs_kind,     \* "geocode": save_cache_safe; "geoids": save_cache
    cs_dct,      \* the dict being saved, its entries in insertion order
    cs_old,      \* the file at the cache path before the save
    cs_fs,       \* path -> file
    cs_pc,       \* position inside the save
    cs_written,  \* rows written so far
    cs_loaded,   \* what load_cache returned
    \* ---- normalize_address_key
    nm_in,       \* the argument
    nm_once,     \* normalize_address_key(nm_in)
    nm_twice,    \* normalize_address_key(nm_once)
    nm_pc,
    \* ---- filter_nppes
    f_roster,    \* the rows of the input roster
    f_states,    \* the states argument
    f_read,      \* rows read so far
    f_kept,      \* kept: the result of each chunk that was appended
    f_filtered,  \* the frame written to out_filtered_csv
    f_pc,
    \* ---- geocode_file_census_batch
    cb_df,        \* the street of each record of the frame, in order
    cb_batchSize,
    cb_start,     \* the loop variable start
    cb_parts,     \* parts: the joined frame of each batch done
    cb_files,     \* the batch files written so far
    cb_resps,     \* the response of each batch submitted so far
    cb_out,       \* the frame written to out_csv
    cb_pc,
    \* ---- add_geoids
    ag_in,        \* the lat and lon cells of the input file
    ag_file,      \* the coordinate cache file
    ag_df,        \* the rows with numeric coordinates
    ag_loaded,    \* the cache as load_cache returned it
    ag_cache,     \* cache
    ag_i,         \* rows handled so far
    ag_ids,       \* county_ids and tract_ids, paired
    ag_reqs,      \* the requests made to the geography API
    ag_error,     \* the exception that left add_geoids, if any
    ag_out,       \* the frame written to out_csv
    ag_pc,
    \* ---- main
    mn_args,      \* the parsed command line
    mn_key,       \* GOOGLE_MAPS_API_KEY of the environment
    mn_calls,     \* the stage functions called so far, with their paths
    mn_pc,
    \* ---- geocode_file: the arguments the interactive stage does not read
    gf_engine,    \* engine
    gf_key,       \* google_key
    gf_maxRetries, \* max_retries
    \* ---- export_final
    ex_in,        \* the input file: its header and its rows
    ex_out,       \* the output file: its header and its rows
    ex_pc,
    \* ---- a run of main with --step all and the interactive engine
    pl_in,        \* args.in_csv
    pl_inFile,    \* the rows of the file --in names
    pl_cache,     \* the geocode cache at the end of the geocode stage
    pl_geocoded,  \* the rows of args.out_geocoded
    pl_geoids,    \* the rows of args.out_geoids
    pl_final,     \* the file args.out: its header and its rows
    pl_pc

rlVars == <<rl_qps, rl_buf, rl_pc, rl_wake, rl_clock, rl_granted>>

geoVars == <<g_df, g_saveEvery, g_workers, g_cachePath, g_files, g_cache, g_todo,
             g_task, g_consumed, g_done, g_main, g_failedBy, g_acquires,
             g_requests, g_out, g_hist>>

csVars == <<cs_kind, cs_dct, cs_old, cs_fs, cs_pc, cs_written, cs_loaded>>

nmVars == <<nm_in, nm_once, nm_twice, nm_pc>>

fVars == <<f_roster, f_states, f_read, f_kept, f_filtered, f_pc>>

cbVars == <<cb_df, cb_batchSize, cb_start, cb_parts, cb_files, cb_resps, cb_out, cb_pc>>

agVars == <<ag_in, ag_file, ag_df, ag_loaded, ag_cache, ag_i, ag_ids, ag_reqs,
           ag_error, ag_out, ag_pc>>

mnVars == <<mn_args, mn_key, mn_calls, mn_pc>>

gfVars == <<gf_engine, gf_key, gf_maxRetries>>

exVars == <<ex_in, ex_out, ex_pc>>

plVars == <<pl_in, pl_inFile, pl_cache, pl_geocoded, pl_geoids, pl_final, pl_pc>>

vars == <<rlVars, geoVars, csVars, nmVars, fVars, cbVars, agVars, mnVars, gfVars, exVars,
          plVars>>

\* a step of one component leaves the other components alone
RLOnly == UNCHANGED <<geoVars, csVars, nmVars, fVars, cbVars, agVars, mnVars, gfVars, exVars, plVars>>

GeoOnly == UNCHANGED <<rlVars, csVars, nmVars, fVars, cbVars, agVars, mnVars, gfVars, exVars, plVars>>

CsOnly == UNCHANGED <<rlVars, geoVars, nmVars, fVars, cbVars, agVars, mnVars, gfVars, exVars, plVars>>

NmOnly == UNCHANGED <<rlVars, geoVars, csVars, fVars, cbVars, agVars, mnVars, gfVars, exVars, plVars>>

FOnly == UNCHANGED <<rlVars, geoVars, csVars, nmVars, cbVars, agVars, mnVars, gfVars, exVars, plVars>>

CbOnly == UNCHANGED <<rlVars, geoVars, csVars, nmVars, fVars, agVars, mnVars, gfVars, exVars, plVars>>

AgOnly == UNCHANGED <<rlVars, geoVars, csVars, nmVars, fVars, cbVars, mnVars, gfVars, exVars, plVars>>

MnOnly == UNCHANGED <<rlVars, geoVars, csVars, nmVars, fVars, cbVars, agVars, gfVars, exVars, plVars>>

----------------------------------------------------------------------------
(* Generic helpers *)

Max(a, b) == IF a >= b THEN a ELSE b

----------------------------------------------------------------------------
(* RateLimiter: time is counted in clock ticks, TicksPerSecond ticks make  *)
(* the 1.0 of the source.  time.time() is read at three places of acquire  *)
(* and the clock may advance between any two of them.                       *)

TicksPerSecond == 2
MaxClock == 5
MaxQps == 2
NThreads == 2
MaxGrants == 4

Threads == 1..NThreads

\* __init__: self.qps = max(1, qps)
LimiterQps(qps) == Max(1, qps)

\* while self.buf and now - self.buf[0] > 1.0: self.buf.popleft()
RECURSIVE Purge(_, _)
Purge(buf, now) ==
    IF buf # <<>> /\ now - buf[1] > TicksPerSecond
    THEN Purge(Tail(buf), now)
    ELSE buf

\* sleep_for = 1.0 - (now - self.buf[0])
SleepFor(buf, now) == TicksPerSecond - (now - buf[1])

RLLockFree == \A t \in Threads : rl_pc[t] = "idle"

RLStart ==
    /\ rl_qps \in {LimiterQps(q) : q \in 0..MaxQps}
    /\ rl_buf = <<>>
    /\ rl_pc = [t \in Threads |-> "idle"]
    /\ rl_wake = 0
    /\ rl_clock = 0
    /\ rl_granted = <<>>

\* the clock advances
RLTick ==
    /\ rl_clock < MaxClock
    /\ rl_clock' = rl_clock + 1
    /\ UNCHANGED <<rl_qps, rl_buf, rl_pc, rl_wake, rl_granted>>
    /\ RLOnly

\* acquire(), lines 45-52: take the lock, read the clock, purge, decide to sleep
RLEnter(t) ==
    /\ rl_pc[t] = "idle"
    /\ RLLockFree
    /\ Len(rl_granted) < MaxGrants
    /\ LET now == rl_clock
           buf == Purge(rl_buf, now)
       IN  /\ rl_buf' = buf
           /\ IF Len(buf) >= rl_qps
              THEN IF SleepFor(buf, now) > 0
                   THEN /\ rl_pc' = [rl_pc EXCEPT ![t] = "sleep"]
                        /\ rl_wake' = now + SleepFor(buf, now)
                   ELSE /\ rl_pc' = [rl_pc EXCEPT ![t] = "purge"]
                        /\ rl_wake' = rl_wake
              ELSE /\ rl_pc' = [rl_pc EXCEPT ![t] = "append"]
                   /\ rl_wake' = rl_wake
    /\ UNCHANGED <<rl_qps, rl_clock, rl_granted>>
    /\ RLOnly

\* time.sleep(sleep_for) returns, no earlier than asked
RLWake(t) ==
    /\ rl_pc[t] = "sleep"
    /\ rl_clock >= rl_wake
    /\ rl_pc' = [rl_pc EXCEPT ![t] = "purge"]
    /\ UNCHANGED <<rl_qps, rl_buf, rl_wake, rl_clock, rl_granted>>
    /\ RLOnly

\* lines 54-56: read the clock again and purge again
RLPurgeAgain(t) ==
    /\ rl_pc[t] = "purge"
    /\ rl_buf' = Purge(rl_buf, rl_clock)
    /\ rl_pc' = [rl_pc EXCEPT ![t] = "append"]
    /\ UNCHANGED <<rl_qps, rl_wake, rl_clock, rl_granted>>
    /\ RLOnly

\* line 57: self.buf.append(time.time()), then the lock is released
RLAppend(t) ==
    /\ rl_pc[t] = "append"
    /\ rl_buf' = Append(rl_buf, rl_clock)
    /\ rl_granted' = Append(rl_granted, rl_clock)
    /\ rl_pc' = [rl_pc EXCEPT ![t] = "idle"]
    /\ UNCHANGED <<rl_qps, rl_wake, rl_clock>>
    /\ RLOnly

RLNext ==
    \/ RLTick
    \/ \E t \in Threads : RLEnter(t)
    \/ \E t \in Threads : RLWake(t)
    \/ \E t \in Threads : RLPurgeAgain(t)
    \/ \E t \in Threads : RLAppend(t)

RLFrozen ==
    /\ rl_qps = 1
    /\ rl_buf = <<>>
    /\ rl_pc = [t \in Threads |-> "idle"]
    /\ rl_wake = 0
    /\ rl_clock = 0
    /\ rl_granted = <<>>

----------------------------------------------------------------------------
(* Interactive geocoding stage: geocode_file with engine google, then      *)
(* geocode_file_google and its pool of lookup tasks.                        *)

MaxRecs == 3
MaxSaveEvery == 2
MaxWorkers == 2
MaxRuns == 2

\* the address keys of the input
AddrKeys == {"K1", "K2"}

GEOCODE_CACHE == "geocode_cache.csv"
OTHER_CACHE == "other_cache.csv"
CachePaths == {GEOCODE_CACHE, OTHER_CACHE}

\* for _ in range(5)
MaxAttempts == 5
\* backoff = 0.25, in milliseconds
InitialBackoff == 250

EmptyMap == [k \in {} |-> ""]

MapPutAlone(m, k, v) == [x \in {k} |-> v]

MapPut(m, k, v) == [x \in (DOMAIN m) \cup {k} |-> IF x = k THEN v ELSE m[x]]

\* what the API answers for an address: its location and place id
ApiLat(k) == IF k = "K1" THEN "41.1" ELSE "41.2"

ApiLon(k) == IF k = "K1" THEN "-87.1" ELSE "-87.2"

ApiPlace(k) == IF k = "K1" THEN "P1" ELSE "P2"

\* one response of session.get: "429" throttled; "OK" status OK with results;
\* "OK_EMPTY" status OK with an empty results array; "ZERO_RESULTS";
\* "HTTP_ERROR" another error status (raise_for_status raises); "TIMEOUT"
\* (session.get raises)
Responses == {"429", "OK", "OK_EMPTY", "ZERO_RESULTS", "HTTP_ERROR", "TIMEOUT"}

\* first_full[k]: the full address of the first record with that key, here
\* the position of that record
RECURSIVE FirstIndexFrom(_, _, _)
FirstIndexFrom(df, k, i) ==
    IF i > Len(df) THEN 0
    ELSE IF df[i] = k THEN i ELSE FirstIndexFrom(df, k, i + 1)

FirstFull(df, k) == FirstIndexFrom(df, k, 1)

Row(k, q, la, lo, st, pid) ==
    [qkey |-> k, query |-> q, lat |-> la, lon |-> lo, status |-> st, place_id |-> pid]

\* geocode_google_one, line 281: status OK and a result
OkResult(k, q) == Row(k, q, ApiLat(k), ApiLon(k), "OK", ApiPlace(k))

\* geocode_google_one, line 283: any other terminal status
TerminalResult(k, q, st) == Row(k, q, "", "", st, "")

\* geocode_google_one, line 284: every attempt was throttled
ExhaustedResult(k, q) == Row(k, q, "", "", "OVER_QUERY_LIMIT", "")

NextBackoffConstant(b) == b

\* time.sleep(backoff); backoff *= 2
NextBackoff(b) == b * 2

\* df["addr_key"].unique(): the distinct keys in order of first appearance
RECURSIVE UniqueKeys(_, _)
UniqueKeys(df, seen) ==
    IF df = <<>> THEN <<>>
    ELSE IF Head(df) \in seen THEN UniqueKeys(Tail(df), seen)
         ELSE <<Head(df)>> \o UniqueKeys(Tail(df), seen \cup {Head(df)})

TodoPerRecord(df, cache) == SelectSeq(df, LAMBDA k : k \notin DOMAIN cache)

TodoIgnoringCache(df, cache) == UniqueKeys(df, {})

\* todo = [(k, first_full[k]) for k in df["addr_key"].unique() if (k,) not in cache]
Todo(df, cache) == SelectSeq(UniqueKeys(df, {}), LAMBDA k : k \notin DOMAIN cache)

\* load_cache(cache_path, ["qkey"]) and the normalisation loop of geocode_file
LoadedCache(files, path) == files[path]

\* save_cache_safe(GEOCODE_CACHE, cache) inside the as_completed loop
PeriodicFlush(files, cache) == [files EXCEPT ![GEOCODE_CACHE] = cache]

FinalFlushSkipped(files, cache) == files

\* save_cache_safe(GEOCODE_CACHE, cache) after the pool has shut down
FinalFlush(files, cache) == [files EXCEPT ![GEOCODE_CACHE] = cache]

RECURSIVE RehydrateOncePerKey(_, _, _)
RehydrateOncePerKey(df, cache, i) ==
    IF i > Len(df) THEN <<>>
    ELSE LET k == df[i]
             hit == k \in DOMAIN cache /\ cache[k].lat # "" /\ cache[k].lon # ""
         IN  (IF hit /\ FirstFull(df, k) = i
              THEN <<[rec |-> i, addr_key |-> k, lat |-> cache[k].lat,
                      lon |-> cache[k].lon, geocode_status |-> cache[k].status,
                      place_id |-> cache[k].place_id]>>
              ELSE <<>>)
                 \o RehydrateOncePerKey(df, cache, i + 1)

\* pick_row and the filter on lat/lon: the records that keep coordinates
RECURSIVE Rehydrate(_, _, _)
Rehydrate(df, cache, i) ==
    IF i > Len(df) THEN <<>>
    ELSE LET k == df[i]
             la == IF k \in DOMAIN cache THEN cache[k].lat ELSE ""
             lo == IF k \in DOMAIN cache THEN cache[k].lon ELSE ""
             st == IF k \in DOMAIN cache THEN cache[k].status ELSE ""
             pid == IF k \in DOMAIN cache THEN cache[k].place_id ELSE ""
             row == [rec |-> i, addr_key |-> k, lat |-> la, lon |-> lo,
                     geocode_status |-> st, place_id |-> pid]
         IN  (IF la # "" /\ lo # "" THEN <<row>> ELSE <<>>)
                 \o Rehydrate(df, cache, i + 1)

NoTask == [st |-> "none", attempt |-> 0, backoff |-> 0, slept |-> <<>>,
           result |-> Row("", 0, "", "", "", ""), error |-> ""]

QueuedTask == [NoTask EXCEPT !.st = "queued"]

TodoSet == {g_todo[i] : i \in 1..Len(g_todo)}

Running == {k \in TodoSet : g_task[k].st = "ready"}

Finished(k) == g_task[k].st \in {"done", "raised"}

\* the pool hands queued tasks to free workers in submission order
HeadOfQueue(k) ==
    \E i \in 1..Len(g_todo) :
        /\ g_todo[i] = k
        /\ g_task[k].st = "queued"
        /\ \A j \in 1..(i - 1) : g_task[g_todo[j]].st # "queued"

PriorCaches ==
    {EmptyMap}
        \cup {MapPut(EmptyMap, "K1", OkResult("K1", 1)),
              MapPut(EmptyMap, "K1", TerminalResult("K1", 1, "ZERO_RESULTS"))}

\* geocode_file up to the call of geocode_file_google, and geocode_file_google
\* up to the submission of the tasks
BeginRun(df, files, path) ==
    LET cache == LoadedCache(files, path)
        todo == Todo(df, cache)
    IN  /\ g_cache' = cache
        /\ g_todo' = todo
        /\ g_task' = [k \in AddrKeys |->
                        IF \E i \in 1..Len(todo) : todo[i] = k
                        THEN QueuedTask ELSE NoTask]
        /\ g_consumed' = {}
        /\ g_done' = 0
        /\ g_main' = IF todo = <<>> THEN "rehydrate" ELSE "pool"
        /\ g_failedBy' = ""
        /\ g_acquires' = 0
        /\ g_requests' = 0
        /\ g_out' = <<>>

GeoStart ==
    /\ g_df \in UNION {[1..n -> AddrKeys] : n \in 1..MaxRecs}
    /\ g_saveEvery \in 1..MaxSaveEvery
    /\ g_workers \in 1..MaxWorkers
    /\ g_cachePath = GEOCODE_CACHE
    /\ g_files \in [CachePaths -> PriorCaches]
    /\ g_files[OTHER_CACHE] = EmptyMap
    /\ g_hist = <<>>
    /\ g_main = "init"
    /\ g_cache = EmptyMap
    /\ g_todo = <<>>
    /\ g_task = [k \in AddrKeys |-> NoTask]
    /\ g_consumed = {}
    /\ g_done = 0
    /\ g_failedBy = ""
    /\ g_acquires = 0
    /\ g_requests = 0
    /\ g_out = <<>>

GeoFrozen ==
    /\ g_df = <<>>
    /\ g_saveEvery = 1
    /\ g_workers = 1
    /\ g_cachePath = GEOCODE_CACHE
    /\ g_files = [p \in CachePaths |-> EmptyMap]
    /\ g_hist = <<>>
    /\ g_main = "init"
    /\ g_cache = EmptyMap
    /\ g_todo = <<>>
    /\ g_task = [k \in AddrKeys |-> NoTask]
    /\ g_consumed = {}
    /\ g_done = 0
    /\ g_failedBy = ""
    /\ g_acquires = 0
    /\ g_requests = 0
    /\ g_out = <<>>

\* a run of the stage starts: the first one, or one more on the same input
\* with the files as the earlier run left them
GeoBegin ==
    /\ \/ g_main = "init" /\ g_hist' = g_hist
       \/ /\ g_main \in {"complete", "failed", "killed"}
          /\ Len(g_hist) + 1 < MaxRuns
          /\ g_hist' = Append(g_hist, g_main)
    /\ BeginRun(g_df, g_files, g_cachePath)
    /\ UNCHANGED <<g_df, g_saveEvery, g_workers, g_cachePath, g_files>>
    /\ GeoOnly

\* task(k, query), line 298: a free worker takes the task and
\* limiter.acquire() returns
GeoAcquire(k) ==
    /\ g_main \in {"pool", "failing"}
    /\ HeadOfQueue(k)
    /\ Cardinality(Running) < g_workers
    /\ g_task' = [g_task EXCEPT ![k] =
                    [@ EXCEPT !.st = "ready", !.attempt = 0, !.backoff = InitialBackoff]]
    /\ g_acquires' = g_acquires + 1
    /\ UNCHANGED <<g_df, g_saveEvery, g_workers, g_cachePath, g_files, g_cache,
                   g_todo, g_consumed, g_done, g_main, g_failedBy, g_requests,
                   g_out, g_hist>>
    /\ GeoOnly

\* one turn of the loop of geocode_google_one: the request and its response.
\* attempt, backoff and slept are the loop's count, its local backoff and the
\* sleeps it has made; a return or a raise from inside the loop ends them,
\* the return after the loop keeps them as the record of the exhausted lookup.
AttemptOutcome(t, k, q, resp) ==
    CASE resp = "429" ->
            IF t.attempt + 1 < MaxAttempts
            THEN [t EXCEPT !.attempt = @ + 1, !.slept = Append(@, t.backoff),
                           !.backoff = NextBackoff(@)]
            ELSE [t EXCEPT !.attempt = @ + 1, !.slept = Append(@, t.backoff),
                           !.backoff = NextBackoff(@),
                           !.st = "done", !.result = ExhaustedResult(k, q)]
      [] resp = "OK" ->
            [NoTask EXCEPT !.st = "done", !.result = OkResult(k, q)]
      [] resp = "OK_EMPTY" ->
            [NoTask EXCEPT !.st = "done", !.result = TerminalResult(k, q, "OK")]
      [] resp = "ZERO_RESULTS" ->
            [NoTask EXCEPT !.st = "done",
                           !.result = TerminalResult(k, q, "ZERO_RESULTS")]
      [] OTHER ->
            [NoTask EXCEPT !.st = "raised", !.error = resp]

GeoAttempt(k, resp) ==
    /\ g_main \in {"pool", "failing"}
    /\ k \in TodoSet
    /\ g_task[k].st = "ready"
    /\ g_task' = [g_task EXCEPT ![k] =
                    AttemptOutcome(@, k, FirstFull(g_df, k), resp)]
    /\ g_requests' = g_requests + 1
    /\ UNCHANGED <<g_df, g_saveEvery, g_workers, g_cachePath, g_files, g_cache,
                   g_todo, g_consumed, g_done, g_main, g_failedBy, g_acquires,
                   g_out, g_hist>>
    /\ GeoOnly

\* one turn of the as_completed loop, lines 305-313, for a future that
\* holds a result: merge, count, flush every save_every
GeoMerge(k) ==
    /\ g_main = "pool"
    /\ k \in TodoSet \ g_consumed
    /\ g_task[k].st = "done"
    /\ LET cache == MapPut(g_cache, k, g_task[k].result)
           done == g_done + 1
       IN  /\ g_cache' = cache
           /\ g_done' = done
           /\ g_files' = IF done % g_saveEvery = 0
                         THEN PeriodicFlush(g_files, cache) ELSE g_files
    /\ g_consumed' = g_consumed \cup {k}
    /\ UNCHANGED <<g_df, g_saveEvery, g_workers, g_cachePath, g_todo, g_task,
                   g_main, g_failedBy, g_acquires, g_requests, g_out, g_hist>>
    /\ GeoOnly

\* fut.result() raises what the task raised: the loop is left, and the
\* executor's __exit__ waits for the tasks still queued or running
GeoRaise(k) ==
    /\ g_main = "pool"
    /\ k \in TodoSet \ g_consumed
    /\ g_task[k].st = "raised"
    /\ g_consumed' = g_consumed \cup {k}
    /\ g_main' = "failing"
    /\ g_failedBy' = k
    /\ UNCHANGED <<g_df, g_saveEvery, g_workers, g_cachePath, g_files, g_cache,
                   g_todo, g_task, g_done, g_acquires, g_requests, g_out, g_hist>>
    /\ GeoOnly

\* shutdown(wait=True) returns and the exception leaves geocode_file
GeoAbort ==
    /\ g_main = "failing"
    /\ \A k \in TodoSet : Finished(k)
    /\ g_main' = "failed"
    /\ UNCHANGED <<g_df, g_saveEvery, g_workers, g_cachePath, g_files, g_cache,
                   g_todo, g_task, g_consumed, g_done, g_failedBy, g_acquires,
                   g_requests, g_out, g_hist>>
    /\ GeoOnly

\* every future has been taken: the pool shuts down, line 314 flushes
GeoFinalFlush ==
    /\ g_main = "pool"
    /\ g_consumed = TodoSet
    /\ g_files' = FinalFlush(g_files, g_cache)
    /\ g_main' = "rehydrate"
    /\ UNCHANGED <<g_df, g_saveEvery, g_workers, g_cachePath, g_cache, g_todo,
                   g_task, g_consumed, g_done, g_failedBy, g_acquires, g_requests,
                   g_out, g_hist>>
    /\ GeoOnly

\* lines 316-325: rehydrate, drop the records without coordinates, write
GeoWrite ==
    /\ g_main = "rehydrate"
    /\ g_out' = Rehydrate(g_df, g_cache, 1)
    /\ g_main' = "complete"
    /\ UNCHANGED <<g_df, g_saveEvery, g_workers, g_cachePath, g_files, g_cache,
                   g_todo, g_task, g_consumed, g_done, g_failedBy, g_acquires,
                   g_requests, g_hist>>
    /\ GeoOnly

\* the process is killed
GeoKill ==
    /\ g_main \in {"pool", "failing", "rehydrate"}
    /\ g_main' = "killed"
    /\ UNCHANGED <<g_df, g_saveEvery, g_workers, g_cachePath, g_files, g_cache,
                   g_todo, g_task, g_consumed, g_done, g_failedBy, g_acquires,
                   g_requests, g_out, g_hist>>
    /\ GeoOnly

GeoNext ==
    \/ GeoBegin
    \/ \E k \in AddrKeys : GeoAcquire(k)
    \/ \E k \in AddrKeys, resp \in Responses : GeoAttempt(k, resp)
    \/ \E k \in AddrKeys : GeoMerge(k)
    \/ \E k \in AddrKeys : GeoRaise(k)
    \/ GeoAbort
    \/ GeoFinalFlush
    \/ GeoWrite
    \/ GeoKill

----------------------------------------------------------------------------
(* Strings are sequences of characters; a character is a one-letter       *)
(* string, and a run of ordinary letters may stand as one token.            *)

COMMA == ","
QUOTE == "\""
CR == "\r"
LF == "\n"

Whitespace == {" ", "\t", CR, LF}

NoneStr == <<"<None>">>

RECURSIVE JoinWith(_, _)
JoinWith(strs, sep) ==
    IF strs = <<>> THEN <<>>
    ELSE IF Len(strs) = 1 THEN strs[1]
         ELSE strs[1] \o sep \o JoinWith(Tail(strs), sep)

----------------------------------------------------------------------------
(* normalize_address_key *)

UpperChar(c) ==
    CASE c = "a" -> "A"
      [] c = "b" -> "B"
      [] c = "i" -> "I"
      [] c = "l" -> "L"
      [] c = "w" -> "W"
      [] OTHER -> c

RECURSIVE LStrip(_)
LStrip(s) == IF s # <<>> /\ Head(s) \in Whitespace THEN LStrip(Tail(s)) ELSE s

RECURSIVE RStrip(_)
RStrip(s) ==
    IF s # <<>> /\ s[Len(s)] \in Whitespace THEN RStrip(SubSeq(s, 1, Len(s) - 1)) ELSE s

\* s.strip()
Strip(s) == RStrip(LStrip(s))

\* s.replace("  ", " "): one pass, left to right, over non-overlapping pairs
RECURSIVE ReplacePairsOnce(_)
ReplacePairsOnce(s) ==
    IF Len(s) < 2 THEN s
    ELSE IF s[1] = " " /\ s[2] = " "
         THEN <<" ">> \o ReplacePairsOnce(Tail(Tail(s)))
         ELSE <<s[1]>> \o ReplacePairsOnce(Tail(s))

\* re.sub(r"\s+", " ", s): every maximal run of whitespace becomes one space
RECURSIVE CollapseWhitespace(_)
CollapseWhitespace(s) ==
    IF s = <<>> THEN <<>>
    ELSE IF Head(s) \in Whitespace
         THEN <<" ">> \o CollapseWhitespace(LStrip(s))
         ELSE <<Head(s)>> \o CollapseWhitespace(Tail(s))

\* s.upper()
Upper(s) == [i \in 1..Len(s) |-> UpperChar(s[i])]

\* normalize_address_key(s); None stands for the argument None
normalize_address_key(s) ==
    LET s0 == IF s = NoneStr THEN <<>> ELSE s
    IN  Upper(CollapseWhitespace(Strip(s0)))

----------------------------------------------------------------------------
(* The cache store: csv.DictWriter / csv.DictReader over a file, and the   *)
(* write-to-temporary-then-replace of save_cache_safe and save_cache.       *)

MaxRows == 2

\* CACHE_FIELDS
CACHE_FIELDS == <<"qkey", "query", "lat", "lon", "status", "place_id">>

\* the fieldnames add_geoids passes to save_cache
GEOID_FIELDS == <<"lat", "lon", "county_geoid", "tract_geoid">>

FieldsOf(kind) == IF kind = "geocode" THEN CACHE_FIELDS ELSE GEOID_FIELDS

\* the key columns load_cache is called with
KeyFieldsOf(kind) == IF kind = "geocode" THEN <<"qkey">> ELSE <<"lat", "lon">>

NeedsQuoting(f) == \E i \in 1..Len(f) : f[i] \in {COMMA, QUOTE, CR, LF}

RECURSIVE DoubleQuotes(_)
DoubleQuotes(f) ==
    IF f = <<>> THEN <<>>
    ELSE (IF Head(f) = QUOTE THEN <<QUOTE, QUOTE>> ELSE <<Head(f)>>)
             \o DoubleQuotes(Tail(f))

EncodeFieldUnquoted(f) == f

\* csv.writer, QUOTE_MINIMAL: a field holding the delimiter, the quote
\* character or a line-terminator character is quoted, its quotes doubled
EncodeField(f) ==
    IF NeedsQuoting(f) THEN <<QUOTE>> \o DoubleQuotes(f) \o <<QUOTE>> ELSE f

\* csv.writer.writerow: the fields joined by the delimiter, then "\r\n"
EncodeRecord(fields) ==
    JoinWith([i \in 1..Len(fields) |-> EncodeField(fields[i])], <<COMMA>>) \o <<CR, LF>>

\* DictWriter.writeheader
HeaderText(fieldnames) == EncodeRecord([i \in 1..Len(fieldnames) |-> <<fieldnames[i]>>])

\* the dict DictWriter is given for one entry: save_cache_safe takes qkey
\* from the dict key and the other columns from the row; save_cache writes
\* the row itself
WrittenFields(kind, entry) ==
    IF kind = "geocode"
    THEN <<entry.key[1], entry.row["query"], entry.row["lat"], entry.row["lon"],
           entry.row["status"], entry.row["place_id"]>>
    ELSE [i \in 1..Len(GEOID_FIELDS) |-> entry.row[GEOID_FIELDS[i]]]

RowText(kind, entry) == EncodeRecord(WrittenFields(kind, entry))

RECURSIVE RowsText(_, _)
RowsText(kind, dct) ==
    IF dct = <<>> THEN <<>>
    ELSE RowText(kind, Head(dct)) \o RowsText(kind, Tail(dct))

\* the whole file a completed save writes
TableText(kind, dct) == HeaderText(FieldsOf(kind)) \o RowsText(kind, dct)

\* csv.reader: the parser's state machine (START_RECORD, START_FIELD,
\* IN_FIELD, IN_QUOTED_FIELD, QUOTE_IN_QUOTED_FIELD), fed the text of a file
\* opened with newline="".  CsvRecordAt reads the record that starts at
\* position i and tells where the next one starts; an empty line yields the
\* empty record.
AfterEol(text, i) ==
    IF text[i] = CR /\ i < Len(text) /\ text[i + 1] = LF THEN i + 2 ELSE i + 1

RECURSIVE CsvRecordAt(_, _, _, _, _)
CsvRecordAt(text, i, st, fld, rec) ==
    IF i > Len(text)
    THEN [rec |-> IF st = "START_RECORD" THEN <<>> ELSE Append(rec, fld), next |-> i]
    ELSE
    LET c == text[i]
    IN  CASE st = "START_RECORD" ->
                IF c \in {CR, LF}
                THEN [rec |-> <<>>, next |-> AfterEol(text, i)]
                ELSE CsvRecordAt(text, i, "START_FIELD", <<>>, <<>>)
          [] st = "START_FIELD" ->
                IF c \in {CR, LF}
                THEN [rec |-> Append(rec, <<>>), next |-> AfterEol(text, i)]
                ELSE IF c = QUOTE
                THEN CsvRecordAt(text, i + 1, "IN_QUOTED_FIELD", <<>>, rec)
                ELSE IF c = COMMA
                THEN CsvRecordAt(text, i + 1, "START_FIELD", <<>>, Append(rec, <<>>))
                ELSE CsvRecordAt(text, i + 1, "IN_FIELD", <<c>>, rec)
          [] st = "IN_FIELD" ->
                IF c \in {CR, LF}
                THEN [rec |-> Append(rec, fld), next |-> AfterEol(text, i)]
                ELSE IF c = COMMA
                THEN CsvRecordAt(text, i + 1, "START_FIELD", <<>>, Append(rec, fld))
                ELSE CsvRecordAt(text, i + 1, "IN_FIELD", Append(fld, c), rec)
          [] st = "IN_QUOTED_FIELD" ->
                IF c = QUOTE
                THEN CsvRecordAt(text, i + 1, "QUOTE_IN_QUOTED_FIELD", fld, rec)
                ELSE CsvRecordAt(text, i + 1, "IN_QUOTED_FIELD", Append(fld, c), rec)
          [] OTHER ->
                IF c = QUOTE
                THEN CsvRecordAt(text, i + 1, "IN_QUOTED_FIELD", Append(fld, QUOTE), rec)
                ELSE IF c = COMMA
                THEN CsvRecordAt(text, i + 1, "START_FIELD", <<>>, Append(rec, fld))
                ELSE IF c \in {CR, LF}
                THEN [rec |-> Append(rec, fld), next |-> AfterEol(text, i)]
                ELSE CsvRecordAt(text, i + 1, "IN_FIELD", Append(fld, c), rec)

RECURSIVE CsvParse(_, _)
CsvParse(text, i) ==
    IF i > Len(text) THEN <<>>
    ELSE LET r == CsvRecordAt(text, i, "START_RECORD", <<>>, <<>>)
         IN  <<r.rec>> \o CsvParse(text, r.next)

\* the records DictReader keeps: it skips the empty ones
CsvRecords(text) == SelectSeq(CsvParse(text, 1), LAMBDA r : r # <<>>)

\* insertion into a dict: a present key keeps its place and gets the new row
DictPut(dct, key, row) ==
    IF \E i \in 1..Len(dct) : dct[i].key = key
    THEN [i \in 1..Len(dct) |->
            IF dct[i].key = key THEN [key |-> key, row |-> row] ELSE dct[i]]
    ELSE Append(dct, [key |-> key, row |-> row])

\* csv.DictReader: the first record names the columns; a short record
\* leaves its missing columns None
DictRow(fieldnames, rec) ==
    [f \in {fieldnames[i][1] : i \in 1..Len(fieldnames)} |->
        LET i == CHOOSE j \in 1..Len(fieldnames) : fieldnames[j][1] = f
        IN  IF i <= Len(rec) THEN rec[i] ELSE NoneStr]

RECURSIVE LoadRows(_, _, _, _)
LoadRows(fieldnames, recs, keys, out) ==
    IF recs = <<>> THEN out
    ELSE LET row == DictRow(fieldnames, Head(recs))
             key == [i \in 1..Len(keys) |-> row[keys[i]]]
         IN  LoadRows(fieldnames, Tail(recs), keys, DictPut(out, key, row))

\* load_cache(path, keys) on a file that exists and holds `text`
LoadText(text, keys) ==
    LET recs == CsvRecords(text)
    IN  IF recs = <<>> THEN <<>>
        ELSE LoadRows(Head(recs), Tail(recs), keys, <<>>)

\* strings with the characters a CSV file gives a meaning to
SampleStrs ==
    {<<>>, <<"a", COMMA, " ", "b">>, <<QUOTE, "a", QUOTE>>, <<"a", CR, LF, "b">>}

\* a row as geocode_file_google merges it: qkey is the normalized query,
\* and the result is one geocode_google_one returns
GeocodeEntry(q, la, lo, st, pid) ==
    LET k == normalize_address_key(q)
    IN  [key |-> <<k>>,
         row |-> [qkey |-> k, query |-> q, lat |-> la, lon |-> lo,
                  status |-> st, place_id |-> pid]]

GeocodeEntries ==
    {GeocodeEntry(q, <<"41.1">>, <<"-87.1">>, <<"OK">>, pid) :
        q \in SampleStrs, pid \in SampleStrs}
        \cup {GeocodeEntry(q, <<>>, <<>>, st, <<>>) : q \in SampleStrs, st \in SampleStrs}

\* a row as add_geoids inserts it: the key is the formatted coordinate pair
GeoidEntry(la, lo, county, tract) ==
    [key |-> <<la, lo>>,
     row |-> [lat |-> la, lon |-> lo, county_geoid |-> county, tract_geoid |-> tract]]

GeoidEntries ==
    {GeoidEntry(c[1], c[2], county, tract) :
        c \in {<<<<"41.100000">>, <<"-87.100000">>>>,
               <<<<"41.100000">>, <<"-87.200000">>>>,
               <<<<"41.200000">>, <<"-87.100000">>>>},
        county \in SampleStrs, tract \in {<<>>, <<"17031010100">>}}

EntriesOf(kind) == IF kind = "geocode" THEN GeocodeEntries ELSE GeoidEntries

DistinctKeys(dct) ==
    \A i, j \in 1..Len(dct) : i # j => dct[i].key # dct[j].key

Tables(kind) ==
    {dct \in UNION {[1..n -> EntriesOf(kind)] : n \in 0..MaxRows} : DistinctKeys(dct)}

CachePath == <<"cache.csv">>

TmpPathSame(path) == path

\* tmp = path + ".tmp"
TmpPath(path) == path \o <<".tmp">>

Absent == [exists |-> FALSE, text |-> <<>>]

FileOf(text) == [exists |-> TRUE, text |-> text]

\* the table the cache file holds before the save
OldTable(kind) ==
    IF kind = "geocode"
    THEN <<GeocodeEntry(<<"z">>, <<>>, <<>>, <<"ZERO_RESULTS">>, <<>>)>>
    ELSE <<GeoidEntry(<<"40.000000">>, <<"-80.000000">>, <<"17031">>, <<>>)>>

\* os.replace(src, dst)
OsReplace(fs, src, dst) ==
    IF src = dst THEN fs
    ELSE [p \in DOMAIN fs |->
            IF p = dst THEN fs[src] ELSE IF p = src THEN Absent ELSE fs[p]]

\* load_cache(path, keys)
load_cache(fs, path, keys) ==
    IF ~fs[path].exists THEN <<>> ELSE LoadText(fs[path].text, keys)

CsStart ==
    /\ cs_kind \in {"geocode", "geoids"}
    /\ cs_dct \in Tables(cs_kind)
    /\ cs_old \in {Absent, FileOf(TableText(cs_kind, OldTable(cs_kind)))}
    /\ cs_fs = [p \in {CachePath, TmpPath(CachePath)} |->
                  IF p = CachePath THEN cs_old ELSE Absent]
    /\ cs_pc = "idle"
    /\ cs_written = 0
    /\ cs_loaded = <<>>

CsFrozen ==
    /\ cs_kind = "geocode"
    /\ cs_dct = <<>>
    /\ cs_old = Absent
    /\ cs_fs = [p \in {CachePath, TmpPath(CachePath)} |-> Absent]
    /\ cs_pc = "idle"
    /\ cs_written = 0
    /\ cs_loaded = <<>>

\* open(tmp, "w"): the temporary file is created or truncated
CsOpen ==
    /\ cs_pc = "idle"
    /\ cs_fs' = [cs_fs EXCEPT ![TmpPath(CachePath)] = FileOf(<<>>)]
    /\ cs_pc' = "header"
    /\ UNCHANGED <<cs_kind, cs_dct, cs_old, cs_written, cs_loaded>>
    /\ CsOnly

\* w.writeheader()
CsHeader ==
    /\ cs_pc = "header"
    /\ cs_fs' = [cs_fs EXCEPT ![TmpPath(CachePath)] =
                    FileOf(@.text \o HeaderText(FieldsOf(cs_kind)))]
    /\ cs_pc' = "rows"
    /\ UNCHANGED <<cs_kind, cs_dct, cs_old, cs_written, cs_loaded>>
    /\ CsOnly

\* w.writerow(...) for the next entry of the dict
CsRow ==
    /\ cs_pc = "rows"
    /\ cs_written < Len(cs_dct)
    /\ cs_fs' = [cs_fs EXCEPT ![TmpPath(CachePath)] =
                    FileOf(@.text \o RowText(cs_kind, cs_dct[cs_written + 1]))]
    /\ cs_written' = cs_written + 1
    /\ UNCHANGED <<cs_kind, cs_dct, cs_old, cs_pc, cs_loaded>>
    /\ CsOnly

\* the with block ends: the temporary file is closed
CsClose ==
    /\ cs_pc = "rows"
    /\ cs_written = Len(cs_dct)
    /\ cs_pc' = "closed"
    /\ UNCHANGED <<cs_kind, cs_dct, cs_old, cs_fs, cs_written, cs_loaded>>
    /\ CsOnly

\* os.replace(tmp, path)
CsReplace ==
    /\ cs_pc = "closed"
    /\ cs_fs' = OsReplace(cs_fs, TmpPath(CachePath), CachePath)
    /\ cs_pc' = "saved"
    /\ UNCHANGED <<cs_kind, cs_dct, cs_old, cs_written, cs_loaded>>
    /\ CsOnly

\* the process dies between two steps of the save
CsCrash ==
    /\ cs_pc \in {"header", "rows", "closed"}
    /\ cs_pc' = "crashed"
    /\ UNCHANGED <<cs_kind, cs_dct, cs_old, cs_fs, cs_written, cs_loaded>>
    /\ CsOnly

\* load_cache on the same path, by this or a later run
CsLoad ==
    /\ cs_pc = "saved"
    /\ cs_loaded' = load_cache(cs_fs, CachePath, KeyFieldsOf(cs_kind))
    /\ cs_pc' = "loaded"
    /\ UNCHANGED <<cs_kind, cs_dct, cs_old, cs_fs, cs_written>>
    /\ CsOnly

CsNext ==
    \/ CsOpen
    \/ CsHeader
    \/ CsRow
    \/ CsClose
    \/ CsReplace
    \/ CsCrash
    \/ CsLoad

----------------------------------------------------------------------------
(* normalize_address_key applied once and once more to its own result *)

MaxNormLen == 5

NormChars == {" ", "\t", "a", "B"}

NormInputs == UNION {[1..n -> NormChars] : n \in 0..MaxNormLen} \cup {NoneStr}

NmStart ==
    /\ nm_in \in NormInputs
    /\ nm_once = <<>>
    /\ nm_twice = <<>>
    /\ nm_pc = "input"

NmFrozen ==
    /\ nm_in = <<>>
    /\ nm_once = <<>>
    /\ nm_twice = <<>>
    /\ nm_pc = "input"

\* key = normalize_address_key(s)
NmOnce ==
    /\ nm_pc = "input"
    /\ nm_once' = normalize_address_key(nm_in)
    /\ nm_pc' = "once"
    /\ UNCHANGED <<nm_in, nm_twice>>
    /\ NmOnly

\* normalize_address_key(key)
NmTwice ==
    /\ nm_pc = "once"
    /\ nm_twice' = normalize_address_key(nm_once)
    /\ nm_pc' = "twice"
    /\ UNCHANGED <<nm_in, nm_once>>
    /\ NmOnly

NmNext ==
    \/ NmOnce
    \/ NmTwice

----------------------------------------------------------------------------
(* filter_nppes: the roster is read in chunks of CHUNK rows; every chunk is
   filtered, classified and de-duplicated, and the chunk results are
   concatenated.  Pass-through columns that take no part in a decision
   (entity_type, name, phone, taxonomy_all) are left out of the rows. *)

\* rows per chunk, scaled down from 100_000 so that a small roster spans chunks
CHUNK == 2

MaxRoster == 3

HCBS_TAX == {"253Z00000X", "3747P1801X", "376J00000X", "251E00000X"}

ALF_TAX == {"310400000X", "3104A0625X", "3104A0630X"}

\* a missing cell, as pandas reads it: of a code column, of a text column
NaN == "<NaN>"

NaNText == <<"<NaN>">>

NoCode == "<None>"

Letters == {"a", "b", "i", "l", "w", "A", "B", "I", "L", "W"}

Digits == {"0", "1", "2", "3", "4", "5", "6", "7", "8", "9"}

LowerChar(c) ==
    CASE c = "A" -> "a"
      [] c = "B" -> "b"
      [] c = "I" -> "i"
      [] c = "L" -> "l"
      [] c = "W" -> "w"
      [] OTHER -> c

\* s.title()
Title(s) ==
    [i \in 1..Len(s) |->
        IF i > 1 /\ s[i - 1] \in Letters THEN LowerChar(s[i]) ELSE UpperChar(s[i])]

\* fillna("").astype(str)
FillNa(cell) == IF cell = NaNText THEN <<>> ELSE cell

\* astype(str) of a cell
AsStr(cell) == IF cell = NaNText THEN <<"n", "a", "n">> ELSE cell

zip5(z) ==
    LET s == IF z = NaNText THEN <<"n", "a", "n">> ELSE z
    IN  IF Len(s) >= 5 /\ \A i \in 1..5 : s[i] \in Digits THEN SubSeq(s, 1, 5) ELSE s

Matched(code) == code \in HCBS_TAX \cup ALF_TAX

\* hit_hcbs / hit_alf of a row: any taxonomy slot in the set
HitHcbs(row) == \E i \in 1..Len(row.tax) : row.tax[i] \in HCBS_TAX

HitAlf(row) == \E i \in 1..Len(row.tax) : row.tax[i] \in ALF_TAX

RECURSIVE ChoosePrimaryFrom(_, _, _)
ChoosePrimaryFrom(row, i, best) ==
    IF i > Len(row.tax) THEN best
    ELSE IF Matched(row.tax[i])
         THEN LET sw == IF i <= Len(row.sw) THEN row.sw[i] ELSE ""
              IN  IF sw = "Y" THEN row.tax[i]
                  ELSE ChoosePrimaryFrom(row, i + 1,
                                         IF best = NoCode THEN row.tax[i] ELSE best)
         ELSE ChoosePrimaryFrom(row, i + 1, best)

ChoosePrimaryFirstMatch(row) ==
    IF \E i \in 1..Len(row.tax) : Matched(row.tax[i])
    THEN row.tax[CHOOSE i \in 1..Len(row.tax) :
                    /\ Matched(row.tax[i])
                    /\ \A j \in 1..(i - 1) : ~Matched(row.tax[j])]
    ELSE NoCode

choose_primary(row) == ChoosePrimaryFrom(row, 1, NoCode)

provider_type(code) ==
    IF code \in ALF_TAX THEN "ALF"
    ELSE IF code \in HCBS_TAX THEN "HCBS"
    ELSE "HCBS"

TagsOfOneSet(h, a) == IF a THEN "ALF" ELSE IF h THEN "HCBS" ELSE ""

provider_tags(h, a) ==
    IF h /\ a THEN "HCBS;ALF"
    ELSE IF h THEN "HCBS"
    ELSE IF a THEN "ALF"
    ELSE ""

\* chunk[STATE].str.upper().str.strip()
NormalizeState(row) ==
    [row EXCEPT !.state = IF row.state = NaNText THEN NaNText ELSE Strip(Upper(row.state))]

OutRow(row) ==
    LET primary == choose_primary(row)
    IN  [npi |-> row.npi,
         provider_type |-> provider_type(primary),
         provider_tags |-> provider_tags(HitHcbs(row), HitAlf(row)),
         address |-> Strip(FillNa(row.address)),
         address2 |-> Strip(FillNa(row.address2)),
         city |-> Strip(Title(FillNa(row.city))),
         state |-> AsStr(row.state),
         zip |-> zip5(row.zip),
         taxonomy_primary |-> primary]

address_full(r) ==
    Strip(r.address
          \o (IF r.address2 # <<>> THEN <<" ">> \o r.address2 ELSE <<>>)
          \o <<",", " ">> \o r.city \o <<",", " ">> \o r.state \o <<" ">> \o r.zip)

DedupeKey(r) == <<r.npi, address_full(r)>>

\* out.drop_duplicates(subset=["npi","address_full"]): the first of each key
RECURSIVE DropDuplicatesFrom(_, _)
DropDuplicatesFrom(rows, seen) ==
    IF rows = <<>> THEN <<>>
    ELSE IF DedupeKey(Head(rows)) \in seen
         THEN DropDuplicatesFrom(Tail(rows), seen)
         ELSE <<Head(rows)>>
              \o DropDuplicatesFrom(Tail(rows), seen \cup {DedupeKey(Head(rows))})

DropDuplicates(rows) == DropDuplicatesFrom(rows, {})

\* the state filter of one chunk; NoStates stands for states=None
NoStates == {}

StateFiltered(chunk, states) ==
    IF states # NoStates
    THEN LET InStates(row) == row.state \in states
         IN  SelectSeq([i \in 1..Len(chunk) |-> NormalizeState(chunk[i])], InStates)
    ELSE chunk

TaxonomyFiltered(chunk) ==
    LET HitAny(row) == HitHcbs(row) \/ HitAlf(row)
    IN  SelectSeq(chunk, HitAny)

\* the body of the chunk loop: <<appended, out>>
ProcessChunk(chunk, states) ==
    LET byState == StateFiltered(chunk, states)
        byTax == TaxonomyFiltered(byState)
        HasPrimary(row) == choose_primary(row) # NoCode
        withPrimary == SelectSeq(byTax, HasPrimary)
        out == [i \in 1..Len(withPrimary) |-> OutRow(withPrimary[i])]
    IN  IF byState = <<>> \/ byTax = <<>> THEN <<FALSE, <<>>>>
        ELSE <<TRUE, DropDuplicates(out)>>

RECURSIVE Concat(_)
Concat(parts) == IF parts = <<>> THEN <<>> ELSE Head(parts) \o Concat(Tail(parts))

RosterNpis == {"1000000001", "1000000002"}

RosterAddresses ==
    { [address |-> <<"1", " ", "Main">>, address2 |-> <<"Apt">>,
       zip |-> <<"6", "2", "7", "0", "1">>],
      [address |-> <<"1", " ", "Main", " ", "Apt", " ">>, address2 |-> NaNText,
       zip |-> <<"6", "2", "7", "0", "1", "1", "2", "3", "4">>],
      [address |-> <<"2", " ", "Oak">>, address2 |-> NaNText,
       zip |-> <<"6", "2", "7", "0", "1">>] }

RosterProfiles ==
    { [state |-> <<"I", "L">>, tax |-> <<"253Z00000X", "207Q00000X">>, sw |-> <<"Y", "N">>],
      [state |-> <<"I", "L">>, tax |-> <<"253Z00000X", "310400000X">>, sw |-> <<"N", "Y">>],
      [state |-> <<"I", "L">>, tax |-> <<"207Q00000X", NaN>>, sw |-> <<"Y", NaN>>],
      [state |-> <<"w", "i", " ">>, tax |-> <<"310400000X", NaN>>, sw |-> <<"Y", NaN>>] }

RosterRows ==
    { [npi |-> n, state |-> p.state, tax |-> p.tax, sw |-> p.sw,
       address |-> a.address, address2 |-> a.address2,
       city |-> <<"A", "L", "B", "A">>, zip |-> a.zip] :
      n \in RosterNpis, a \in RosterAddresses, p \in RosterProfiles }

StatesArgs == {NoStates, {<<"I", "L">>}}

FStart ==
    /\ f_roster \in UNION {[1..n -> RosterRows] : n \in 0..MaxRoster}
    /\ f_states \in StatesArgs
    /\ f_read = 0
    /\ f_kept = <<>>
    /\ f_filtered = <<>>
    /\ f_pc = "chunks"

FFrozen ==
    /\ f_roster = <<>>
    /\ f_states = NoStates
    /\ f_read = 0
    /\ f_kept = <<>>
    /\ f_filtered = <<>>
    /\ f_pc = "chunks"

\* one iteration of: for chunk in pd.read_csv(..., chunksize=CHUNK)
FChunk ==
    /\ f_pc = "chunks"
    /\ f_read < Len(f_roster)
    /\ LET last == IF f_read + CHUNK < Len(f_roster) THEN f_read + CHUNK
                   ELSE Len(f_roster)
           res == ProcessChunk(SubSeq(f_roster, f_read + 1, last), f_states)
       IN  /\ f_read' = last
           /\ f_kept' = IF res[1] THEN Append(f_kept, res[2]) ELSE f_kept
    /\ UNCHANGED <<f_roster, f_states, f_filtered, f_pc>>
    /\ FOnly

\* filtered = pd.concat(kept) if kept else an empty frame; filtered.to_csv
FWrite ==
    /\ f_pc = "chunks"
    /\ f_read = Len(f_roster)
    /\ f_filtered' = Concat(f_kept)
    /\ f_pc' = "done"
    /\ UNCHANGED <<f_roster, f_states, f_read, f_kept>>
    /\ FOnly

FNext ==
    \/ FChunk
    \/ FWrite

----------------------------------------------------------------------------
(* filter_nppes on a roster of one row, over every filling of the row's
   taxonomy-code and primary-switch columns *)

\* the number of taxonomy-code columns of the roster
MaxSlots == 3

TaxCells == {"253Z00000X", "310400000X", "207Q00000X", NaN}

SwitchCells == {"Y", "N", NaN}

\* the roster may have fewer switch columns than taxonomy columns
SlotRows ==
    { [npi |-> "1000000001", state |-> st, tax |-> tx, sw |-> sw,
       address |-> <<"1", " ", "Main">>, address2 |-> NaNText,
       city |-> <<"A", "L", "B", "A">>, zip |-> <<"6", "2", "7", "0", "1">>] :
      st \in {<<"I", "L">>, <<"w", "i", " ">>},
      tx \in [1..MaxSlots -> TaxCells],
      sw \in UNION {[1..n -> SwitchCells] : n \in (MaxSlots - 1)..MaxSlots} }

FRowStart ==
    /\ f_roster \in [1..1 -> SlotRows]
    /\ f_states \in StatesArgs
    /\ f_read = 0
    /\ f_kept = <<>>
    /\ f_filtered = <<>>
    /\ f_pc = "chunks"

----------------------------------------------------------------------------
(* geocode_file_census_batch: the frame is cut into batches of batch_size
   records; each batch is serialized with row ids 1..n, posted to the bulk
   API, and the parsed response is joined back onto the batch. *)

MaxCensusRecs == 3

MaxBatchSize == 2

CensusStreets == {"1 MAIN ST", "2 OAK AVE"}

\* what the bulk API answers for a street it matches
CensusLat(street) == IF street = "1 MAIN ST" THEN "41.1" ELSE "42.2"

CensusLon(street) == IF street = "1 MAIN ST" THEN "-87.1" ELSE "-88.2"

CensusCounty(street) == IF street = "1 MAIN ST" THEN "17031" ELSE "17043"

CensusTract(street) == IF street = "1 MAIN ST" THEN "17031010100" ELSE "17043840000"

\* census_batch_file: the rows written for a batch, ids 1..len in order
census_batch_file(sub) == [i \in 1..Len(sub) |-> [id |-> i, street |-> sub[i]]]

\* a response row: a matched row has the twelve columns with coordinates and
\* geographies, an unmatched row only the first three
MatchRow(fileRow) ==
    [id |-> fileRow.id, ncols |-> 12,
     lat |-> CensusLat(fileRow.street), lon |-> CensusLon(fileRow.street),
     county_geoid |-> CensusCounty(fileRow.street),
     tract_geoid |-> CensusTract(fileRow.street)]

NoMatchRow(fileRow) ==
    [id |-> fileRow.id, ncols |-> 3, lat |-> "", lon |-> "",
     county_geoid |-> "", tract_geoid |-> ""]

\* the response texts the API can give for a batch file: one row per id
CensusResponses(file) ==
    {[i \in 1..Len(file) |-> IF i \in m THEN MatchRow(file[i]) ELSE NoMatchRow(file[i])] :
        m \in SUBSET (1..Len(file))}

\* parse_census_batch: rows with fewer than 9 columns are skipped
parse_census_batch(rows) ==
    LET Long(r) == r.ncols >= 9
        kept == SelectSeq(rows, Long)
    IN  [i \in 1..Len(kept) |->
            [id |-> kept[i].id, lat |-> kept[i].lat, lon |-> kept[i].lon,
             county_geoid |-> kept[i].county_geoid,
             tract_geoid |-> kept[i].tract_geoid]]

\* sub.reset_index(drop=True).join(res.set_index("id")): a left join of the
\* batch's positional index 0..n-1 on the response's id index
JoinOnIndex(sub, res) ==
    [p \in 1..Len(sub) |->
        LET idx == p - 1
            hits == {i \in 1..Len(res) : res[i].id = idx}
        IN  IF hits = {}
            THEN [street |-> sub[p], lat |-> NaN, lon |-> NaN,
                  county_geoid |-> NaN, tract_geoid |-> NaN]
            ELSE LET r == res[CHOOSE i \in hits : TRUE]
                 IN  [street |-> sub[p], lat |-> r.lat, lon |-> r.lon,
                      county_geoid |-> r.county_geoid,
                      tract_geoid |-> r.tract_geoid]]

CbStart ==
    /\ cb_df \in UNION {[1..n -> CensusStreets] : n \in 0..MaxCensusRecs}
    /\ cb_batchSize \in 1..MaxBatchSize
    /\ cb_start = 0
    /\ cb_parts = <<>>
    /\ cb_files = <<>>
    /\ cb_resps = <<>>
    /\ cb_out = <<>>
    /\ cb_pc = "batches"

CbFrozen ==
    /\ cb_df = <<>>
    /\ cb_batchSize = 1
    /\ cb_start = 0
    /\ cb_parts = <<>>
    /\ cb_files = <<>>
    /\ cb_resps = <<>>
    /\ cb_out = <<>>
    /\ cb_pc = "batches"

CbSub ==
    SubSeq(cb_df, cb_start + 1,
           IF cb_start + cb_batchSize < Len(cb_df) THEN cb_start + cb_batchSize
           ELSE Len(cb_df))

\* one iteration of the batch loop with a successful submission
CbBatch ==
    /\ cb_pc = "batches"
    /\ cb_start < Len(cb_df)
    /\ LET file == census_batch_file(CbSub)
       IN  \E txt \in CensusResponses(file) :
               /\ cb_files' = Append(cb_files, file)
               /\ cb_resps' = Append(cb_resps, txt)
               /\ cb_parts' = Append(cb_parts, JoinOnIndex(CbSub, parse_census_batch(txt)))
    /\ cb_start' = cb_start + cb_batchSize
    /\ UNCHANGED <<cb_df, cb_batchSize, cb_out, cb_pc>>
    /\ CbOnly

\* requests.post times out or raise_for_status raises: the exception leaves
\* geocode_file_census_batch
CbBatchFails ==
    /\ cb_pc = "batches"
    /\ cb_start < Len(cb_df)
    /\ cb_files' = Append(cb_files, census_batch_file(CbSub))
    /\ cb_pc' = "failed"
    /\ UNCHANGED <<cb_df, cb_batchSize, cb_start, cb_parts, cb_resps, cb_out>>
    /\ CbOnly

\* out = pd.concat(parts); out.to_csv(out_csv).  pd.concat of no parts raises.
CbWrite ==
    /\ cb_pc = "batches"
    /\ cb_start >= Len(cb_df)
    /\ IF cb_parts = <<>>
       THEN /\ cb_pc' = "failed"
            /\ cb_out' = cb_out
       ELSE /\ cb_pc' = "done"
            /\ cb_out' = Concat(cb_parts)
    /\ UNCHANGED <<cb_df, cb_batchSize, cb_start, cb_parts, cb_files, cb_resps>>
    /\ CbOnly

CbNext ==
    \/ CbBatch
    \/ CbBatchFails
    \/ CbWrite

----------------------------------------------------------------------------
(* add_geoids: every record with numeric coordinates gets the county and
   tract of its coordinate, from the coordinate cache or from one request to
   the geography API.  A coordinate is an integer count of 10^-7 degrees; a
   cache key holds the coordinate formatted with six decimals, here the
   integer count of 10^-6 degrees that the text denotes. *)

MaxGeoRecs == 3

\* the cache is saved whenever its size is a multiple of this; 200 in the
\* source, scaled down so that a small run reaches it
GeoidsSaveEvery == 2

\* f"{v:.6f}": the nearest multiple of 10^-6, a tie going to the even digit
Format6(v) ==
    LET a == IF v < 0 THEN 0 - v ELSE v
        q == a \div 10
        r == a % 10
        n == IF r > 5 \/ (r = 5 /\ q % 2 = 1) THEN q + 1 ELSE q
    IN  IF v < 0 THEN 0 - n ELSE n

\* key = (f"{la:.6f}", f"{lo:.6f}")
GeoidKey(la, lo) == <<Format6(la), Format6(lo)>>

\* a cell of the lat or lon column: the text of a number, or other text
Num(v) == [numeric |-> TRUE, value |-> v]

NotNumeric == [numeric |-> FALSE, value |-> 0]

\* the cells of the lat and lon columns of the input
CoordCells ==
    { [lat |-> Num(411000001), lon |-> Num(-871000000)],
      [lat |-> Num(411000004), lon |-> Num(-871000000)],
      [lat |-> Num(411000006), lon |-> Num(-871000000)],
      [lat |-> NotNumeric, lon |-> Num(-871000000)] }

\* pd.to_numeric(errors="coerce") and df.dropna(subset=["lat","lon"]): the
\* rows whose two cells are numbers, as numbers
DropNa(df) ==
    LET Numeric(r) == r.lat.numeric /\ r.lon.numeric
        kept == SelectSeq(df, Numeric)
    IN  [i \in 1..Len(kept) |-> [lat |-> kept[i].lat.value, lon |-> kept[i].lon.value]]

\* what the geography API holds for a point
GeoCounty(la, lo) == IF la = 411000004 THEN "17043" ELSE "17031"

GeoTract(la, lo) == IF la = 411000004 THEN "17043840000" ELSE "17031010100"

\* the outcomes of one call of coords_to_geoids: "OK" a body with county and
\* tract; "NO_MATCH" a body whose geographies are empty; "MALFORMED" a JSON
\* body without the expected keys; "NOT_JSON" a body r.json() cannot parse;
\* "REQUEST_ERROR" requests.get raises (connection error, timeout)
GeoResponses == {"OK", "NO_MATCH", "MALFORMED", "NOT_JSON", "REQUEST_ERROR"}

\* requests.get and r.json() stand outside the try block
GeoRaises(resp) == resp \in {"NOT_JSON", "REQUEST_ERROR"}

\* coords_to_geoids for a response it can return from: <<county, tract>>
coords_to_geoids(la, lo, resp) ==
    IF resp = "OK" THEN <<GeoCounty(la, lo), GeoTract(la, lo)>> ELSE <<"", "">>

GeoidRow(key, ids) ==
    [lat |-> key[1], lon |-> key[2], county_geoid |-> ids[1], tract_geoid |-> ids[2]]

CacheHitNever(cache, key) == FALSE

\* if key in cache
CacheHit(cache, key) == key \in DOMAIN cache

\* the coordinate cache files an earlier run can have left
PriorGeoidCaches ==
    {EmptyMap,
     MapPut(EmptyMap, GeoidKey(411000001, -871000000),
            GeoidRow(GeoidKey(411000001, -871000000), <<"17031", "17031010100">>))}

AgStart ==
    /\ ag_in \in UNION {[1..n -> CoordCells] : n \in 0..MaxGeoRecs}
    /\ ag_file \in PriorGeoidCaches
    /\ ag_df = <<>>
    /\ ag_loaded = EmptyMap
    /\ ag_cache = EmptyMap
    /\ ag_i = 0
    /\ ag_ids = <<>>
    /\ ag_reqs = <<>>
    /\ ag_error = ""
    /\ ag_out = <<>>
    /\ ag_pc = "start"

AgFrozen ==
    /\ ag_in = <<>>
    /\ ag_file = EmptyMap
    /\ ag_df = <<>>
    /\ ag_loaded = EmptyMap
    /\ ag_cache = EmptyMap
    /\ ag_i = 0
    /\ ag_ids = <<>>
    /\ ag_reqs = <<>>
    /\ ag_error = ""
    /\ ag_out = <<>>
    /\ ag_pc = "start"

\* lines 475-481: read the input, drop the rows without numeric
\* coordinates, load the cache
AgBegin ==
    /\ ag_pc = "start"
    /\ ag_df' = DropNa(ag_in)
    /\ ag_loaded' = ag_file
    /\ ag_cache' = ag_file
    /\ ag_pc' = "loop"
    /\ UNCHANGED <<ag_in, ag_file, ag_i, ag_ids, ag_reqs, ag_error, ag_out>>
    /\ AgOnly

\* one turn of the loop for a key the cache holds
AgHit ==
    /\ ag_pc = "loop"
    /\ ag_i < Len(ag_df)
    /\ LET r == ag_df[ag_i + 1]
           key == GeoidKey(r.lat, r.lon)
       IN  /\ CacheHit(ag_cache, key)
           /\ ag_ids' = Append(ag_ids, <<ag_cache[key].county_geoid,
                                         ag_cache[key].tract_geoid>>)
    /\ ag_i' = ag_i + 1
    /\ UNCHANGED <<ag_in, ag_file, ag_df, ag_loaded, ag_cache, ag_reqs, ag_error,
                   ag_out, ag_pc>>
    /\ AgOnly

\* one turn of the loop for a key the cache lacks: the request, the new
\* cache entry and the periodic save; or the request raises and the
\* exception leaves add_geoids
AgLookup(resp) ==
    /\ ag_pc = "loop"
    /\ ag_i < Len(ag_df)
    /\ LET r == ag_df[ag_i + 1]
           key == GeoidKey(r.lat, r.lon)
           ids == coords_to_geoids(r.lat, r.lon, resp)
           cache == MapPut(ag_cache, key, GeoidRow(key, ids))
       IN  /\ ~CacheHit(ag_cache, key)
           /\ ag_reqs' = Append(ag_reqs, [key |-> key, lat |-> r.lat, lon |-> r.lon])
           /\ IF GeoRaises(resp)
              THEN /\ ag_error' = resp
                   /\ ag_pc' = "failed"
                   /\ UNCHANGED <<ag_cache, ag_file, ag_ids, ag_i>>
              ELSE /\ ag_cache' = cache
                   /\ ag_file' = IF Cardinality(DOMAIN cache) % GeoidsSaveEvery = 0
                                 THEN cache ELSE ag_file
                   /\ ag_ids' = Append(ag_ids, ids)
                   /\ ag_i' = ag_i + 1
                   /\ UNCHANGED <<ag_error, ag_pc>>
    /\ UNCHANGED <<ag_in, ag_df, ag_loaded, ag_out>>
    /\ AgOnly

\* lines 511-513: the identifiers are attached and the output is written
AgWrite ==
    /\ ag_pc = "loop"
    /\ ag_i = Len(ag_df)
    /\ ag_out' = [i \in 1..Len(ag_df) |->
                    [lat |-> ag_df[i].lat, lon |-> ag_df[i].lon,
                     county_geoid |-> ag_ids[i][1], tract_geoid |-> ag_ids[i][2]]]
    /\ ag_pc' = "written"
    /\ UNCHANGED <<ag_in, ag_file, ag_df, ag_loaded, ag_cache, ag_i, ag_ids,
                   ag_reqs, ag_error>>
    /\ AgOnly

\* line 514: the final save of the cache
AgSave ==
    /\ ag_pc = "written"
    /\ ag_file' = ag_cache
    /\ ag_pc' = "done"
    /\ UNCHANGED <<ag_in, ag_df, ag_loaded, ag_cache, ag_i, ag_ids, ag_reqs,
                   ag_error, ag_out>>
    /\ AgOnly

AgNext ==
    \/ AgBegin
    \/ AgHit
    \/ \E resp \in GeoResponses : AgLookup(resp)
    \/ AgWrite
    \/ AgSave

----------------------------------------------------------------------------
(* main: the command line is parsed and the four stage blocks are passed in
   program order; a block whose stage is selected calls the stage function
   with the input and output paths main computes. *)

Steps == {"filter", "geocode", "geoids", "export", "all"}

\* the value of an option that was not given and has no default
None == "<None>"

\* --in: not given, given empty, given
InArgs == {None, "", "in.csv"}

OutFilteredArgs == {"providers_filtered.csv", "my_filtered.csv"}

OutGeocodedArgs == {"providers_geocoded_tmp.csv", "my_geocoded.csv"}

OutGeoidsArgs == {"providers_with_geoids_tmp.csv", "my_geoids.csv"}

OutArgs == {"providers_8states_geocoded.csv", "my_final.csv"}

Engines == {"google", "census"}

\* os.getenv("GOOGLE_MAPS_API_KEY"): set or not
KeyEnv == {"key", None}

\* a or b
OrElse(a, b) == IF a = None \/ a = "" THEN b ELSE a

Call(stage, in, out) == [stage |-> stage, in_csv |-> in, out_csv |-> out]

MnStart ==
    /\ mn_args \in [step : Steps, in_csv : InArgs, out_filtered : OutFilteredArgs,
                    out_geocoded : OutGeocodedArgs, out_geoids : OutGeoidsArgs,
                    out : OutArgs, engine : Engines]
    /\ mn_key \in KeyEnv
    /\ mn_calls = <<>>
    /\ mn_pc = "filter"

MnFrozen ==
    /\ mn_args = [step |-> "all", in_csv |-> None,
                  out_filtered |-> "providers_filtered.csv",
                  out_geocoded |-> "providers_geocoded_tmp.csv",
                  out_geoids |-> "providers_with_geoids_tmp.csv",
                  out |-> "providers_8states_geocoded.csv", engine |-> "google"]
    /\ mn_key = None
    /\ mn_calls = <<>>
    /\ mn_pc = "filter"

\* lines 558-559
MnFilter ==
    /\ mn_pc = "filter"
    /\ mn_calls' = IF mn_args.step \in {"filter", "all"}
                   THEN Append(mn_calls, Call("filter", "nppes.csv", mn_args.out_filtered))
                   ELSE mn_calls
    /\ mn_pc' = "geocode"
    /\ UNCHANGED <<mn_args, mn_key>>
    /\ MnOnly

\* lines 561-567; geocode_file raises SystemExit when the engine is google
\* and the key is missing
MnGeocode ==
    /\ mn_pc = "geocode"
    /\ IF mn_args.step \in {"geocode", "all"}
       THEN /\ mn_calls' = Append(mn_calls,
                                  Call("geocode", OrElse(mn_args.in_csv, mn_args.out_filtered),
                                       mn_args.out_geocoded))
            /\ mn_pc' = IF mn_args.engine = "google" /\ mn_key = None
                        THEN "exit" ELSE "geoids"
       ELSE /\ mn_calls' = mn_calls
            /\ mn_pc' = "geoids"
    /\ UNCHANGED <<mn_args, mn_key>>
    /\ MnOnly

\* lines 569-571
MnGeoids ==
    /\ mn_pc = "geoids"
    /\ mn_calls' = IF mn_args.step \in {"geoids", "all"}
                   THEN Append(mn_calls,
                               Call("geoids", OrElse(mn_args.in_csv, mn_args.out_geocoded),
                                    mn_args.out_geoids))
                   ELSE mn_calls
    /\ mn_pc' = "export"
    /\ UNCHANGED <<mn_args, mn_key>>
    /\ MnOnly

\* lines 573-575
MnExport ==
    /\ mn_pc = "export"
    /\ mn_calls' = IF mn_args.step \in {"export", "all"}
                   THEN Append(mn_calls,
                               Call("export", OrElse(mn_args.in_csv, mn_args.out_geoids),
                                    mn_args.out))
                   ELSE mn_calls
    /\ mn_pc' = "end"
    /\ UNCHANGED <<mn_args, mn_key>>
    /\ MnOnly

MnNext ==
    \/ MnFilter
    \/ MnGeocode
    \/ MnGeoids
    \/ MnExport

----------------------------------------------------------------------------
(* geocode_file as main() and other callers may call it: any engine, any
   key, any cache_path and any max_retries.  With engine google and a key it
   runs the interactive stage above. *)

\* --retries / max_retries
RetriesArgs == {2, 4}

\* google_key: set, set to the empty string, not set
GfKeys == {"key", "", None}

MissingKeyNever(key) == FALSE

\* line 439: not google_key
MissingKey(key) == key = None \/ key = ""

GfStart ==
    /\ g_df \in UNION {[1..n -> AddrKeys] : n \in 1..MaxRecs}
    /\ g_saveEvery \in 1..MaxSaveEvery
    /\ g_workers \in 1..MaxWorkers
    /\ g_cachePath \in CachePaths
    /\ g_files \in [CachePaths -> PriorCaches]
    /\ gf_engine \in Engines
    /\ gf_key \in GfKeys
    /\ gf_maxRetries \in RetriesArgs
    /\ g_hist = <<>>
    /\ g_main = "init"
    /\ g_cache = EmptyMap
    /\ g_todo = <<>>
    /\ g_task = [k \in AddrKeys |-> NoTask]
    /\ g_consumed = {}
    /\ g_done = 0
    /\ g_failedBy = ""
    /\ g_acquires = 0
    /\ g_requests = 0
    /\ g_out = <<>>

GfFrozen ==
    /\ gf_engine = "google"
    /\ gf_key = "key"
    /\ gf_maxRetries = 4

\* geocode_file, lines 397-445: read the input, load the cache from
\* cache_path, then SystemExit when the engine is google and the key is
\* missing, else hand over to the engine's function
geocode_file ==
    /\ g_main = "init"
    /\ IF gf_engine = "google" /\ ~MissingKey(gf_key)
       THEN BeginRun(g_df, g_files, g_cachePath)
       ELSE /\ g_cache' = LoadedCache(g_files, g_cachePath)
            /\ g_main' = IF gf_engine = "google" THEN "exit" ELSE "census"
            /\ UNCHANGED <<g_todo, g_task, g_consumed, g_done, g_failedBy,
                           g_acquires, g_requests, g_out>>
    /\ UNCHANGED <<g_df, g_saveEvery, g_workers, g_cachePath, g_files, g_hist>>
    /\ GeoOnly

GfNext ==
    \/ geocode_file
    \/ \E k \in AddrKeys : GeoAcquire(k)
    \/ \E k \in AddrKeys, resp \in Responses : GeoAttempt(k, resp)
    \/ \E k \in AddrKeys : GeoMerge(k)
    \/ \E k \in AddrKeys : GeoRaise(k)
    \/ GeoAbort
    \/ GeoFinalFlush
    \/ GeoWrite

\* the same stage when every call of session.get returns a response
GfAnsweredNext ==
    \/ geocode_file
    \/ \E k \in AddrKeys : GeoAcquire(k)
    \/ \E k \in AddrKeys, resp \in Responses \ {"TIMEOUT"} : GeoAttempt(k, resp)
    \/ \E k \in AddrKeys : GeoMerge(k)
    \/ \E k \in AddrKeys : GeoRaise(k)
    \/ GeoAbort
    \/ GeoFinalFlush
    \/ GeoWrite

----------------------------------------------------------------------------
(* export_final *)

MaxExportRows == 2
MaxExportCols == 3

\* cols, lines 520-525
EXPORT_COLS ==
    <<"npi", "entity_type", "provider_type", "provider_tags",
      "org_or_person_name", "address", "address2", "city", "state", "zip", "phone",
      "taxonomy_primary", "taxonomy_all",
      "lat", "lon", "county_geoid", "tract_geoid">>

\* columns an input file may carry: some of the list and some outside it
InputColumnPool == {"npi", "lat", "tract_geoid", "provider_type", "place_id", "address_full"}

InputHeaders ==
    {h \in UNION {[1..n -> InputColumnPool] : n \in 1..MaxExportCols} :
        \A i, j \in 1..Len(h) : i # j => h[i] # h[j]}

\* the cell of row r in column c
Cell(r, c) == <<r, c>>

InputFile(h, n) == [header |-> h, rows |-> [r \in 1..n |-> [i \in 1..Len(h) |-> Cell(r, h[i])]]]

ColumnsInInputOrder(header) ==
    SelectSeq(header, LAMBDA c : \E i \in 1..Len(EXPORT_COLS) : EXPORT_COLS[i] = c)

\* line 527: cols = [c for c in cols if c in df.columns]
KeptColumns(header) ==
    SelectSeq(EXPORT_COLS, LAMBDA c : \E i \in 1..Len(header) : header[i] = c)

\* df[c] of one row
ColumnOf(header, row, c) == row[CHOOSE i \in 1..Len(header) : header[i] = c]

\* df[cols].to_csv(out_csv, index=False), line 528
export_final(in) ==
    LET cols == KeptColumns(in.header)
    IN  [header |-> cols,
         rows |-> [r \in 1..Len(in.rows) |->
                     [i \in 1..Len(cols) |-> ColumnOf(in.header, in.rows[r], cols[i])]]]

NoFile == [header |-> <<>>, rows |-> <<>>]

ExOnly == UNCHANGED <<rlVars, geoVars, csVars, nmVars, fVars, cbVars, agVars, mnVars, gfVars, plVars>>

ExStart ==
    /\ ex_in \in {InputFile(h, n) : h \in InputHeaders, n \in 0..MaxExportRows}
    /\ ex_out = NoFile
    /\ ex_pc = "start"

ExFrozen ==
    /\ ex_in = NoFile
    /\ ex_out = NoFile
    /\ ex_pc = "start"

ExExport ==
    /\ ex_pc = "start"
    /\ ex_out' = export_final(ex_in)
    /\ ex_pc' = "done"
    /\ UNCHANGED ex_in
    /\ ExOnly

ExNext == ExExport

----------------------------------------------------------------------------
(* A run of main with --step all, the interactive engine and a key: the four
   stage blocks in program order, each reading the file main gives it
   (args.in_csv or the output of the stage before) and writing its output.
   The filter stage is filter_nppes as modelled above (f_filtered is the
   file args.out_filtered); each later stage is taken as one step, with the
   answers of the two APIs chosen by the environment. *)

MaxPipeRoster == 2

\* a row of a stage file: the columns the filter wrote and the columns the
\* later stages add, empty until they are added
Wide(base) == [base |-> base, lat |-> "", lon |-> "", county_geoid |-> "", tract_geoid |-> ""]

\* the rows of a file given with --in: an export of an earlier run
PipeInFiles ==
    { <<[base |-> [npi |-> "1999999999", provider_type |-> "ALF",
                   provider_tags |-> "ALF",
                   address |-> <<"9", " ", "Elm">>, address2 |-> <<>>,
                   city |-> <<"A", "l", "b", "a">>, state |-> <<"I", "L">>,
                   zip |-> <<"6", "2", "7", "0", "1">>,
                   taxonomy_primary |-> "310400000X"],
         lat |-> "41.1000001", lon |-> "-87.1",
         county_geoid |-> "17031", tract_geoid |-> "17031010100"]>> }

\* pd.read_csv(dtype=str).fillna(""): a cell whose text is a missing-value
\* marker is read as missing, then filled with the empty string
NaMarkers == {<<"n", "a", "n">>, <<"N", "A">>, <<"N", "a", "N">>}

ReadCell(cell) == IF cell \in NaMarkers THEN <<>> ELSE cell

\* geocode_file, lines 400-403: address_full and addr_key of a row read back
PipeAddrKey(base) ==
    normalize_address_key(
        address_full([address |-> ReadCell(base.address),
                      address2 |-> ReadCell(base.address2),
                      city |-> ReadCell(base.city),
                      state |-> ReadCell(base.state),
                      zip |-> ReadCell(base.zip)]))

\* the answers of the address API to the lookup of one address: "OK" with a
\* location, "OK_EMPTY" status OK without results, "ZERO_RESULTS", and "429"
\* at every attempt
PipeResponses == {"OK", "OK_EMPTY", "ZERO_RESULTS", "429"}

\* geocode_google_one for such an answer
PipeResult(k, resp) ==
    CASE resp = "OK" -> Row(k, k, "41.1000001", "-87.1", "OK", "P1")
      [] resp = "OK_EMPTY" -> TerminalResult(k, k, "OK")
      [] resp = "429" -> ExhaustedResult(k, k)
      [] OTHER -> TerminalResult(k, k, resp)

PipeKeys(tbl) == {PipeAddrKey(tbl[i].base) : i \in 1..Len(tbl)}

\* geocode_file and geocode_file_google on a file, with an empty cache file
PipeGeocode(tbl, resp) ==
    LET df == [i \in 1..Len(tbl) |-> PipeAddrKey(tbl[i].base)]
        todo == Todo(df, EmptyMap)
        cache == [k \in {todo[i] : i \in 1..Len(todo)} |-> PipeResult(k, resp[k])]
        kept == Rehydrate(df, cache, 1)
    IN  [cache |-> cache,
         out |-> [j \in 1..Len(kept) |->
                    [tbl[kept[j].rec] EXCEPT !.lat = kept[j].lat, !.lon = kept[j].lon]]]

\* pd.to_numeric(errors="coerce") of the text of a lat or lon cell
ToNumeric(text) ==
    CASE text = "41.1000001" -> Num(411000001)
      [] text = "-87.1" -> Num(-871000000)
      [] OTHER -> NotNumeric

\* add_geoids, lines 475-478: the rows whose lat and lon are numbers
PipeDropNa(tbl) ==
    SelectSeq(tbl, LAMBDA r : ToNumeric(r.lat).numeric /\ ToNumeric(r.lon).numeric)

\* add_geoids on a file, with an empty cache file, the geography API
\* answering resp to every lookup
PipeAddGeoids(tbl, resp) ==
    LET df == PipeDropNa(tbl)
    IN  [i \in 1..Len(df) |->
            LET ids == coords_to_geoids(ToNumeric(df[i].lat).value,
                                        ToNumeric(df[i].lon).value, resp)
            IN  [df[i] EXCEPT !.county_geoid = ids[1], !.tract_geoid = ids[2]]]

\* the header of args.out_geoids
PIPE_HEADER ==
    <<"npi", "provider_type", "provider_tags", "address", "address2", "city",
      "state", "zip", "taxonomy_primary", "address_full", "lat", "lon",
      "geocode_status", "place_id", "county_geoid", "tract_geoid">>

PipeCell(row, c) ==
    CASE c = "npi" -> row.base.npi
      [] c = "provider_type" -> row.base.provider_type
      [] c = "provider_tags" -> row.base.provider_tags
      [] c = "address" -> row.base.address
      [] c = "address2" -> row.base.address2
      [] c = "city" -> row.base.city
      [] c = "state" -> row.base.state
      [] c = "zip" -> row.base.zip
      [] c = "taxonomy_primary" -> row.base.taxonomy_primary
      [] c = "lat" -> row.lat
      [] c = "lon" -> row.lon
      [] c = "county_geoid" -> row.county_geoid
      [] c = "tract_geoid" -> row.tract_geoid
      [] OTHER -> ""

PipeFile(tbl) ==
    [header |-> PIPE_HEADER,
     rows |-> [r \in 1..Len(tbl) |->
                 [i \in 1..Len(PIPE_HEADER) |-> PipeCell(tbl[r], PIPE_HEADER[i])]]]

PlStart ==
    /\ f_roster \in UNION {[1..n -> RosterRows] : n \in 0..MaxPipeRoster}
    /\ f_states \in StatesArgs
    /\ f_read = 0
    /\ f_kept = <<>>
    /\ f_filtered = <<>>
    /\ f_pc = "chunks"
    /\ pl_in \in {None, "in.csv"}
    /\ pl_inFile \in PipeInFiles
    /\ pl_cache = EmptyMap
    /\ pl_geocoded = <<>>
    /\ pl_geoids = <<>>
    /\ pl_final = NoFile
    /\ pl_pc = "geocode"

PlFrozen ==
    /\ pl_in = None
    /\ pl_inFile = <<>>
    /\ pl_cache = EmptyMap
    /\ pl_geocoded = <<>>
    /\ pl_geoids = <<>>
    /\ pl_final = NoFile
    /\ pl_pc = "geocode"

PlOnly == UNCHANGED <<rlVars, geoVars, csVars, nmVars, cbVars, agVars, mnVars, gfVars, exVars>>

\* lines 561-567: in_csv = args.in_csv or args.out_filtered
PlGeocode ==
    /\ f_pc = "done"
    /\ pl_pc = "geocode"
    /\ LET tbl == IF OrElse(pl_in, "filtered") = "filtered"
                  THEN [i \in 1..Len(f_filtered) |-> Wide(f_filtered[i])]
                  ELSE pl_inFile
       IN  \E resp \in [PipeKeys(tbl) -> PipeResponses] :
               /\ pl_cache' = PipeGeocode(tbl, resp).cache
               /\ pl_geocoded' = PipeGeocode(tbl, resp).out
    /\ pl_pc' = "geoids"
    /\ UNCHANGED <<fVars, pl_in, pl_inFile, pl_geoids, pl_final>>
    /\ PlOnly

\* lines 569-571: in_csv = args.in_csv or args.out_geocoded
PlGeoids ==
    /\ pl_pc = "geoids"
    /\ LET tbl == IF OrElse(pl_in, "geocoded") = "geocoded" THEN pl_geocoded ELSE pl_inFile
       IN  \E resp \in {"OK", "NO_MATCH"} : pl_geoids' = PipeAddGeoids(tbl, resp)
    /\ pl_pc' = "export"
    /\ UNCHANGED <<fVars, pl_in, pl_inFile, pl_cache, pl_geocoded, pl_final>>
    /\ PlOnly

\* lines 573-575: in_csv = args.in_csv or args.out_geoids
PlExport ==
    /\ pl_pc = "export"
    /\ LET tbl == IF OrElse(pl_in, "geoids") = "geoids" THEN pl_geoids ELSE pl_inFile
       IN  pl_final' = export_final(PipeFile(tbl))
    /\ pl_pc' = "end"
    /\ UNCHANGED <<fVars, pl_in, pl_inFile, pl_cache, pl_geocoded, pl_geoids>>
    /\ PlOnly

PlNext ==
    \/ FChunk
    \/ FWrite
    \/ PlGeocode
    \/ PlGeoids
    \/ PlExport

----------------------------------------------------------------------------
(* Specifications *)

RLInit == RLStart /\ GeoFrozen /\ CsFrozen /\ NmFrozen /\ FFrozen /\ CbFrozen /\ AgFrozen /\ MnFrozen /\ GfFrozen /\ ExFrozen /\ PlFrozen

SpecRateLimiter == RLInit /\ [][RLNext]_vars

CsInit == CsStart /\ RLFrozen /\ GeoFrozen /\ NmFrozen /\ FFrozen /\ CbFrozen /\ AgFrozen /\ MnFrozen /\ GfFrozen /\ ExFrozen /\ PlFrozen

SpecCacheStore == CsInit /\ [][CsNext]_vars

NmInit == NmStart /\ RLFrozen /\ GeoFrozen /\ CsFrozen /\ FFrozen /\ CbFrozen /\ AgFrozen /\ MnFrozen /\ GfFrozen /\ ExFrozen /\ PlFrozen

SpecNormalize == NmInit /\ [][NmNext]_vars

Init == GeoStart /\ RLFrozen /\ CsFrozen /\ NmFrozen /\ FFrozen /\ CbFrozen /\ AgFrozen /\ MnFrozen /\ GfFrozen /\ ExFrozen /\ PlFrozen

FInit == FStart /\ RLFrozen /\ GeoFrozen /\ CsFrozen /\ NmFrozen /\ CbFrozen /\ AgFrozen /\ MnFrozen /\ GfFrozen /\ ExFrozen /\ PlFrozen

SpecFilter == FInit /\ [][FNext]_vars

FRowInit ==
    FRowStart /\ RLFrozen /\ GeoFrozen /\ CsFrozen /\ NmFrozen /\ CbFrozen /\ AgFrozen /\ MnFrozen /\ GfFrozen /\ ExFrozen /\ PlFrozen

SpecFilterRow == FRowInit /\ [][FNext]_vars

CbInit == CbStart /\ RLFrozen /\ GeoFrozen /\ CsFrozen /\ NmFrozen /\ FFrozen /\ AgFrozen /\ MnFrozen /\ GfFrozen /\ ExFrozen /\ PlFrozen

SpecCensusBatch == CbInit /\ [][CbNext]_vars

AgInit ==
    AgStart /\ RLFrozen /\ GeoFrozen /\ CsFrozen /\ NmFrozen /\ FFrozen /\ CbFrozen /\ MnFrozen /\ GfFrozen /\ ExFrozen /\ PlFrozen

SpecGeoids == AgInit /\ [][AgNext]_vars

MnInit ==
    MnStart /\ RLFrozen /\ GeoFrozen /\ CsFrozen /\ NmFrozen /\ FFrozen /\ CbFrozen /\ AgFrozen /\ GfFrozen /\ ExFrozen /\ PlFrozen

SpecMain == MnInit /\ [][MnNext]_vars

GfInit ==
    GfStart /\ RLFrozen /\ CsFrozen /\ NmFrozen /\ FFrozen /\ CbFrozen /\ AgFrozen /\ MnFrozen /\ ExFrozen /\ PlFrozen

SpecGeocodeFile == GfInit /\ [][GfNext]_vars

SpecGeocodeAnswered == Init /\ [][GfAnsweredNext]_vars /\ WF_vars(GfAnsweredNext)

ExInit ==
    ExStart /\ RLFrozen /\ GeoFrozen /\ CsFrozen /\ NmFrozen /\ FFrozen /\ CbFrozen /\ AgFrozen /\ MnFrozen /\ GfFrozen /\ PlFrozen

SpecExport == ExInit /\ [][ExNext]_vars

PlInit ==
    PlStart /\ RLFrozen /\ GeoFrozen /\ CsFrozen /\ NmFrozen /\ CbFrozen /\ AgFrozen /\ MnFrozen /\ GfFrozen /\ ExFrozen

SpecPipeline == PlInit /\ [][PlNext]_vars

Next == GeoNext

Spec == Init /\ [][Next]_vars

----------------------------------------------------------------------------
(* Claims *)

\* C1: every sliding interval of one second holds at most N granted
\* acquisitions.  Stated for half-open intervals [t, t + 1s): any N + 1
\* consecutive grants span at least one second.
C1_WindowBound ==
    \A i \in 1..Len(rl_granted) :
        i + rl_qps <= Len(rl_granted) =>
            rl_granted[i + rl_qps] - rl_granted[i] >= TicksPerSecond


\* C2: every request attempt, first or retry, is preceded by its own
\* acquire(): the requests issued never outnumber the acquire() calls that
\* have returned.
C2_RequestsWithinAcquires == g_requests <= g_acquires

\* C3: a throttled attempt is retried after a backoff of 0.25 s that doubles
\* per attempt, at most MaxAttempts attempts are made, and a lookup whose
\* attempts were all throttled returns OVER_QUERY_LIMIT with empty lat and
\* lon, which is merged into the cache without failing the stage.
C3_ThrottleRetry ==
    \A k \in TodoSet :
        LET t == g_task[k]
            exhausted == Len(t.slept) = MaxAttempts
        IN  /\ \A i \in 1..Len(t.slept) : t.slept[i] = InitialBackoff * 2 ^ (i - 1)
            /\ t.attempt <= MaxAttempts
            /\ t.st = "ready" => t.attempt = Len(t.slept) /\ t.attempt < MaxAttempts
            /\ exhausted =>
                  /\ t.st = "done"
                  /\ t.result = Row(k, FirstFull(g_df, k), "", "", "OVER_QUERY_LIMIT", "")
                  /\ g_failedBy # k
                  /\ k \in g_consumed => k \in DOMAIN g_cache /\ g_cache[k] = t.result

C3_Witness ==
    /\ g_main = "complete"
    /\ \E k \in TodoSet :
          /\ g_task[k].slept = <<250, 500, 1000, 2000, 4000>>
          /\ g_cache[k].status = "OVER_QUERY_LIMIT"
          /\ \E j \in TodoSet \ {k} : g_cache[j].status = "OK"

\* C4: whenever the run is interrupted (killed, or ended by an error a
\* lookup raised), fewer than save_every lookups have returned a result
\* that the cache file does not hold.
LostLookups ==
    {k \in TodoSet :
        /\ g_task[k].st = "done"
        /\ \/ k \notin DOMAIN g_files[GEOCODE_CACHE]
           \/ g_files[GEOCODE_CACHE][k] # g_task[k].result}

C4_LossBelowSaveEvery ==
    g_main \in {"killed", "failed"} => Cardinality(LostLookups) < g_saveEvery

\* C5: a run that follows a completed run on the same input, with the cache
\* file left in place, has an empty to-do list and issues no request.
C5_SecondRunNoRequests ==
    (g_hist # <<>> /\ g_hist[Len(g_hist)] = "complete") =>
        (g_todo = <<>> /\ g_requests = 0 /\ g_acquires = 0)

C5_Witness ==
    /\ g_hist = <<"complete">>
    /\ g_main = "complete"
    /\ "K2" \in DOMAIN g_cache
    /\ g_cache["K2"].status = "OVER_QUERY_LIMIT"
    /\ "K1" \in DOMAIN g_cache
    /\ g_cache["K1"].status = "ZERO_RESULTS"


\* C6: at every point of a save, a crash between two steps included, the
\* file at the cache path is the complete previous file or the complete new
\* table, never a truncated or partly written one.
C6_AtomicReplace ==
    \/ cs_fs[CachePath] = cs_old
    \/ cs_fs[CachePath] = FileOf(TableText(cs_kind, cs_dct))

C6_Witness ==
    /\ cs_pc = "crashed"
    /\ cs_old.exists
    /\ Len(cs_dct) = 2
    /\ cs_written = 1
    /\ cs_fs[TmpPath(CachePath)].text # <<>>

\* C7: save then load_cache on the same path gives the same set of keys
\* and, for each key, the same lat, lon, status and place_id (geocode
\* cache), the same lat, lon, county_geoid and tract_geoid (coordinate
\* cache).
ValueFieldsOf(kind) ==
    IF kind = "geocode" THEN {"lat", "lon", "status", "place_id"}
    ELSE {"lat", "lon", "county_geoid", "tract_geoid"}

SameTable(kind, a, b) ==
    /\ {a[i].key : i \in 1..Len(a)} = {b[i].key : i \in 1..Len(b)}
    /\ \A i \in 1..Len(a) : \A j \in 1..Len(b) :
          a[i].key = b[j].key =>
              \A f \in ValueFieldsOf(kind) : a[i].row[f] = b[j].row[f]

C7_RoundTrip == cs_pc = "loaded" => SameTable(cs_kind, cs_dct, cs_loaded)

C7_Witness ==
    /\ cs_pc = "loaded"
    /\ Len(cs_dct) = 2
    /\ Len(cs_loaded) = 2
    /\ \E i \in 1..2 : NeedsQuoting(cs_dct[i].key[1])
    /\ \E i \in 1..2 : \E f \in ValueFieldsOf(cs_kind) \ {"lat", "lon"} :
          \E n \in 1..Len(cs_dct[i].row[f]) : cs_dct[i].row[f][n] \in {CR, LF}


\* C8: normalize_address_key is idempotent: applied to its own result it
\* returns that result unchanged, for every input string and for None.
C8_Idempotent == nm_pc = "twice" => nm_twice = nm_once

C8_Witness ==
    /\ nm_pc = "twice"
    /\ nm_in = <<" ", "a", "\t", " ", "B">>
    /\ nm_once = <<"A", " ", "B">>

C8_WitnessNone ==
    /\ nm_pc = "twice"
    /\ nm_in = NoneStr
    /\ nm_once = <<>>


\* the rows filter_nppes keeps of a roster, before any de-duplication
MatchingRows(roster, states) ==
    LET byTax == TaxonomyFiltered(StateFiltered(roster, states))
    IN  [i \in 1..Len(byTax) |-> OutRow(byTax[i])]

\* C9: for every roster, whatever number of chunks it spans, the output of
\* filter_nppes holds no two records with the same npi and the same assembled
\* address, and of the matching rows sharing a key exactly the first in input
\* order survives.
C9_DedupAcrossChunks ==
    f_pc = "done" =>
        /\ \A i, j \in 1..Len(f_filtered) :
               i # j => DedupeKey(f_filtered[i]) # DedupeKey(f_filtered[j])
        /\ f_filtered = DropDuplicates(MatchingRows(f_roster, f_states))


\* the values the output must carry for the record at position p of batch b
\* (row id p): those of the response row with that id, if the parse kept one
ValuesForId(b, p) ==
    LET res == parse_census_batch(cb_resps[b])
        hits == {i \in 1..Len(res) : res[i].id = cb_files[b][p].id}
    IN  IF hits = {}
        THEN [lat |-> NaN, lon |-> NaN, county_geoid |-> NaN, tract_geoid |-> NaN]
        ELSE LET r == res[CHOOSE i \in hits : TRUE]
             IN  [lat |-> r.lat, lon |-> r.lon, county_geoid |-> r.county_geoid,
                  tract_geoid |-> r.tract_geoid]

\* C10: in geocode_file_census_batch the record serialized with row id i of
\* a batch receives in the output exactly the lat, lon, county and tract the
\* bulk API returned on the response row with id i of that batch, and no
\* record receives the values returned for another id.
C10_JoinByRowId ==
    cb_pc = "done" =>
        \A b \in 1..Len(cb_files) : \A p \in 1..Len(cb_files[b]) :
            LET o == cb_out[(b - 1) * cb_batchSize + p]
                v == ValuesForId(b, p)
            IN  /\ o.lat = v.lat
                /\ o.lon = v.lon
                /\ o.county_geoid = v.county_geoid
                /\ o.tract_geoid = v.tract_geoid

\* a batch file was written whose submission brought no response
SubmissionFailed == Len(cb_files) > Len(cb_resps)

\* C11: a failed HTTP submission of one batch loses only that batch: it does
\* not end geocode_file_census_batch, which goes on to the remaining batches
\* and writes the records of every batch that succeeded.
C11_BatchFailureIsolated ==
    SubmissionFailed =>
        /\ cb_pc # "failed"
        /\ cb_pc = "done" => cb_out = Concat(cb_parts)

\* C12: a lookup that fails for one address (error status, connection error,
\* unparseable response) does not halt the run: the address is recorded with
\* an empty result and the stage goes on to flush the cache and write its
\* output.
C12_LookupErrorNotFatal ==
    \A k \in TodoSet :
        g_task[k].st = "raised" =>
            /\ g_main \notin {"failing", "failed"}
            /\ k \in g_consumed =>
                  /\ k \in DOMAIN g_cache
                  /\ g_cache[k].lat = ""
                  /\ g_cache[k].lon = ""

\* C13: a request that times out counts as one attempt of the retry cap: the
\* worker stays in the retry loop for the same address, and a timeout never
\* terminates the stage.
C13_TimeoutIsAnAttempt ==
    \A k \in TodoSet :
        /\ g_task[k].error = "TIMEOUT" => g_task[k].st \in {"ready", "done"}
        /\ g_failedBy = k => g_task[k].error # "TIMEOUT"

\* C14: a geography lookup that fails for one coordinate (request error,
\* timeout, non-JSON or malformed response) does not halt add_geoids: the
\* record gets empty identifiers, the output holds one row per input record
\* with numeric coordinates and the coordinate cache is saved.
C14_GeoidErrorNotFatal ==
    /\ ag_pc # "failed"
    /\ ag_pc = "done" =>
          /\ Len(ag_out) = Len(DropNa(ag_in))
          /\ ag_file = ag_cache

\* C19: the cache key of a coordinate is (lat, lon) formatted with six
\* decimals; in one run no key is requested twice, a key of the loaded cache
\* is never requested, and rows whose coordinates give the same key receive
\* the same county and tract.
C19_OneRequestPerKey ==
    /\ \A i, j \in 1..Len(ag_reqs) : i # j => ag_reqs[i].key # ag_reqs[j].key
    /\ \A i \in 1..Len(ag_reqs) :
          /\ ag_reqs[i].key \notin DOMAIN ag_loaded
          /\ ag_reqs[i].key = <<Format6(ag_reqs[i].lat), Format6(ag_reqs[i].lon)>>
    /\ \A i, j \in 1..Len(ag_ids) :
          GeoidKey(ag_df[i].lat, ag_df[i].lon) = GeoidKey(ag_df[j].lat, ag_df[j].lon)
              => ag_ids[i] = ag_ids[j]
    /\ \A i \in 1..Len(ag_ids) :
          /\ GeoidKey(ag_df[i].lat, ag_df[i].lon) \in DOMAIN ag_cache
          /\ ag_ids[i] = <<ag_cache[GeoidKey(ag_df[i].lat, ag_df[i].lon)].county_geoid,
                           ag_cache[GeoidKey(ag_df[i].lat, ag_df[i].lon)].tract_geoid>>

C19_Witness ==
    /\ ag_pc = "done"
    /\ ag_loaded = EmptyMap
    /\ Len(ag_reqs) = 1
    /\ Len(ag_out) = 2
    /\ ag_out[1].lat = 411000001
    /\ ag_out[2].lat = 411000004
    /\ ag_out[1].county_geoid = "17031"
    /\ ag_out[2].county_geoid = "17031"

C19_WitnessLoaded ==
    /\ ag_pc = "done"
    /\ ag_loaded # EmptyMap
    /\ ag_reqs = <<>>
    /\ Len(ag_out) = 2
    /\ ag_out[2].lat = 411000004

\* C15: with the stage selector all, the four stages run once each in the
\* order filter, geocode, geoids, export, and each of geocode, geoids and
\* export reads the output file of the stage before it, whatever the other
\* options are (an explicit --in path and non-default output paths included).
C15_StagesChained ==
    (mn_args.step = "all" /\ mn_pc = "end") =>
        /\ [i \in 1..Len(mn_calls) |-> mn_calls[i].stage]
              = <<"filter", "geocode", "geoids", "export">>
        /\ \A i \in 2..Len(mn_calls) : mn_calls[i].in_csv = mn_calls[i - 1].out_csv

\* the positions of the input records whose key the cache maps to a result
\* with lat and lon
Located ==
    {i \in 1..Len(g_df) :
        /\ g_df[i] \in DOMAIN g_cache
        /\ g_cache[g_df[i]].lat # ""
        /\ g_cache[g_df[i]].lon # ""}

\* C16: the output of geocode_file_google holds exactly the input records
\* whose key has, in the cache after all lookups, a result with non-empty
\* lat and lon, each once and in input order, whatever the order in which
\* the lookups completed.
C16_OutputIsLocatedInOrder ==
    g_main = "complete" =>
        /\ {g_out[j].rec : j \in 1..Len(g_out)} = Located
        /\ \A j \in 1..Len(g_out) :
              /\ j > 1 => g_out[j - 1].rec < g_out[j].rec
              /\ g_out[j].addr_key = g_df[g_out[j].rec]
              /\ g_out[j].lat = g_cache[g_out[j].addr_key].lat
              /\ g_out[j].lon = g_cache[g_out[j].addr_key].lon

C16_Witness ==
    /\ g_main = "complete"
    /\ g_df = <<"K1", "K2", "K1">>
    /\ g_todo = <<"K1", "K2">>
    /\ g_cache["K2"].status = "ZERO_RESULTS"
    /\ g_cache["K1"].status = "OK"
    /\ Len(g_out) = 2
    /\ g_out[1].rec = 1
    /\ g_out[2].rec = 3

\* C17: in one run exactly one lookup task is submitted for every distinct
\* key of the input that the cache lacks, however many records share it, no
\* task for a key the cache holds, and every record with a looked-up key
\* receives the result of that one lookup.
C17_OneTaskPerKey ==
    /\ \A i, j \in 1..Len(g_todo) : i # j => g_todo[i] # g_todo[j]
    /\ (g_main = "pool" /\ g_consumed = {}) =>
          TodoSet = {g_df[i] : i \in 1..Len(g_df)} \ DOMAIN g_cache
    /\ g_acquires <= Cardinality(TodoSet)
    /\ g_main = "complete" =>
          \A j \in 1..Len(g_out) :
              g_out[j].addr_key \in TodoSet =>
                  /\ g_out[j].lat = g_task[g_out[j].addr_key].result.lat
                  /\ g_out[j].lon = g_task[g_out[j].addr_key].result.lon
                  /\ g_out[j].place_id = g_task[g_out[j].addr_key].result.place_id

C17_Witness ==
    /\ g_main = "complete"
    /\ g_hist = <<>>
    /\ g_df = <<"K2", "K1", "K2">>
    /\ g_todo = <<"K2">>
    /\ g_requests = 1
    /\ Len(g_out) = 3
    /\ g_out[1].lat = "41.2"
    /\ g_out[3].lat = "41.2"
    /\ g_out[2].lat = "41.1"

\* every entry of a is an entry of b, with the same fields
Extends(a, b) == \A k \in DOMAIN a : k \in DOMAIN b /\ b[k] = a[k]

MatchedSlots(row) ==
    {i \in 1..Len(row.tax) : row.tax[i] \in HCBS_TAX \cup ALF_TAX}

FlaggedSlots(row) ==
    {i \in MatchedSlots(row) : i <= Len(row.sw) /\ row.sw[i] = "Y"}

LeastOf(S) == CHOOSE i \in S : \A j \in S : i <= j

\* the switch-flagged, else first matched, slot
PrimarySlot(row) ==
    IF FlaggedSlots(row) # {} THEN LeastOf(FlaggedSlots(row))
    ELSE LeastOf(MatchedSlots(row))

DualRow(row) ==
    /\ \E i \in 1..Len(row.tax) : row.tax[i] \in HCBS_TAX
    /\ \E i \in 1..Len(row.tax) : row.tax[i] \in ALF_TAX

PassesStates(row, states) ==
    states = NoStates \/ Strip(Upper(row.state)) \in states

\* C20: a row with a taxonomy slot in the HCBS set and one in the ALF set is
\* output with provider_tags "HCBS;ALF", and its provider_type is that of its
\* primary code alone: ALF when the switch-flagged (else first matched) code
\* is an ALF code, HCBS otherwise.
C20_DualTagging ==
    (/\ f_pc = "done"
     /\ Len(f_roster) = 1
     /\ DualRow(f_roster[1])
     /\ PassesStates(f_roster[1], f_states)) =>
        /\ Len(f_filtered) = 1
        /\ f_filtered[1].provider_tags = "HCBS;ALF"
        /\ f_filtered[1].provider_type =
              IF f_roster[1].tax[PrimarySlot(f_roster[1])] \in ALF_TAX
              THEN "ALF" ELSE "HCBS"

C20_Witness ==
    /\ f_pc = "done"
    /\ Len(f_roster) = 1
    /\ f_roster[1].tax = <<"253Z00000X", "310400000X", "207Q00000X">>
    /\ f_roster[1].sw = <<"N", "Y", "Y">>
    /\ Len(f_filtered) = 1
    /\ f_filtered[1].provider_tags = "HCBS;ALF"
    /\ f_filtered[1].provider_type = "ALF"

C20_WitnessHcbs ==
    /\ f_pc = "done"
    /\ Len(f_roster) = 1
    /\ f_roster[1].tax = <<"310400000X", "253Z00000X", NaN>>
    /\ f_roster[1].sw = <<"N", "Y">>
    /\ Len(f_filtered) = 1
    /\ f_filtered[1].provider_tags = "HCBS;ALF"
    /\ f_filtered[1].provider_type = "HCBS"

\* C21: when the engine is google and no key is configured (the variable is
\* not set, or set to the empty string), geocode_file ends by SystemExit: no
\* step of the stage issues a request, changes a cache file or writes the
\* output file.
C21_MissingKeyAborts ==
    [][(gf_engine = "google" /\ gf_key \in {None, ""}) =>
          /\ g_main' \in {"init", "exit"}
          /\ g_acquires' = 0
          /\ g_requests' = 0
          /\ g_files' = g_files
          /\ g_out' = <<>>]_vars

\* the run has ended by SystemExit, with records to geocode and a cache
\* that was loaded from a file holding an entry
C21_Witness ==
    /\ gf_engine = "google"
    /\ gf_key = None
    /\ g_main = "exit"
    /\ g_df # <<>>
    /\ g_cache # EmptyMap
    /\ g_files[g_cachePath] = g_cache

\* the place of a column in the fixed list, 0 if it is not in the list
ListedAt(c) ==
    IF \E i \in 1..Len(EXPORT_COLS) : EXPORT_COLS[i] = c
    THEN CHOOSE i \in 1..Len(EXPORT_COLS) : EXPORT_COLS[i] = c
    ELSE 0

\* C23: export_final writes one row per input row, in input order, each cell
\* the input's cell of that row and column; the columns written are the
\* columns of the fixed list that the input has, and no other, and they come
\* in the order of the fixed list whatever the order of the input's columns.
C23_FixedColumnOrder ==
    ex_pc = "done" =>
        LET h == ex_out.header
        IN  /\ Len(ex_out.rows) = Len(ex_in.rows)
            /\ \A i \in 1..Len(h) : ListedAt(h[i]) # 0
            /\ \A i, j \in 1..Len(h) : i < j => ListedAt(h[i]) < ListedAt(h[j])
            /\ {h[i] : i \in 1..Len(h)} =
                  {ex_in.header[i] : i \in 1..Len(ex_in.header)}
                      \cap {EXPORT_COLS[i] : i \in 1..Len(EXPORT_COLS)}
            /\ \A r \in 1..Len(ex_out.rows) :
                  /\ Len(ex_out.rows[r]) = Len(h)
                  /\ \A i \in 1..Len(h) : ex_out.rows[r][i] = Cell(r, h[i])

\* two rows exported from a file whose columns come in another order than
\* the list's, with a column outside the list between them
C23_Witness ==
    /\ ex_pc = "done"
    /\ ex_in.header = <<"lat", "place_id", "npi">>
    /\ Len(ex_in.rows) = 2
    /\ ex_out.header = <<"npi", "lat">>
    /\ ex_out.rows = <<<<Cell(1, "npi"), Cell(1, "lat")>>, <<Cell(2, "npi"), Cell(2, "lat")>>>>

\* C24: the taxonomy_primary of a kept row is the code of one of its matched
\* slots, so a code of the HCBS or ALF set: that of the first matched slot
\* whose primary switch is "Y" if there is one, else that of the first
\* matched slot; a switch set on a slot whose code is in neither set changes
\* nothing.
C24_PrimaryChoice ==
    (f_pc = "done" /\ Len(f_roster) = 1) =>
        /\ Len(f_filtered) <= 1
        /\ (Len(f_filtered) = 1) <=>
              (MatchedSlots(f_roster[1]) # {} /\ PassesStates(f_roster[1], f_states))
        /\ Len(f_filtered) = 1 =>
              /\ f_filtered[1].taxonomy_primary \in HCBS_TAX \cup ALF_TAX
              /\ f_filtered[1].taxonomy_primary =
                    f_roster[1].tax[PrimarySlot(f_roster[1])]

\* the first slot is flagged but its code is in neither set, the second is
\* matched and not flagged, the third is matched and flagged
C24_Witness ==
    /\ f_pc = "done"
    /\ Len(f_roster) = 1
    /\ f_roster[1].tax = <<"207Q00000X", "253Z00000X", "310400000X">>
    /\ f_roster[1].sw = <<"Y", "N", "Y">>
    /\ Len(f_filtered) = 1
    /\ f_filtered[1].taxonomy_primary = "310400000X"

\* only a slot whose code is in neither set is flagged: the first match
C24_WitnessUnflagged ==
    /\ f_pc = "done"
    /\ Len(f_roster) = 1
    /\ f_roster[1].tax = <<"207Q00000X", "310400000X", "253Z00000X">>
    /\ f_roster[1].sw = <<"Y", "N">>
    /\ Len(f_filtered) = 1
    /\ f_filtered[1].taxonomy_primary = "310400000X"

\* C25: acquire() records a timestamp only when the queue holds fewer than N
\* of them, so between two acquire() calls the queue holds at most N
\* timestamps, and they are in non-decreasing order.
C25_RecheckBeforeRecord ==
    /\ \A t \in Threads : rl_pc[t] = "append" => Len(rl_buf) < rl_qps
    /\ RLLockFree => Len(rl_buf) <= rl_qps
    /\ \A i, j \in 1..Len(rl_buf) : i < j => rl_buf[i] <= rl_buf[j]

C27_RetriesBoundedBySetting ==
    \A k \in AddrKeys : g_task[k].attempt <= gf_maxRetries + 1

\* C28: every result of geocode_google_one, and every cache entry, has lat
\* and lon both empty or both non-empty, and non-empty exactly when its
\* status is OK.
C28_CoordinatesIffOk ==
    /\ \A k \in DOMAIN g_cache :
          /\ (g_cache[k].lat # "") <=> (g_cache[k].lon # "")
          /\ (g_cache[k].lat # "") <=> (g_cache[k].status = "OK")
    /\ \A k \in AddrKeys :
          g_task[k].st = "done" =>
              /\ (g_task[k].result.lat # "") <=> (g_task[k].result.lon # "")
              /\ (g_task[k].result.lat # "") <=> (g_task[k].result.status = "OK")

\* C29: every flush of the interactive run writes the file at cache_path,
\* the file the cache was loaded from; no other cache file is changed.
C29_FlushToCachePath ==
    [][/\ \A p \in CachePaths : p # g_cachePath => g_files'[p] = g_files[p]
       /\ g_files' # g_files => g_files'[g_cachePath] = g_cache']_vars

\* C30: when every HTTP call returns a response, the interactive stage runs
\* to its end under any fair interleaving: eventually every to-do address
\* has a cache entry, the final flush has been made and the output file is
\* written.
C30_StageCompletes ==
    <>(/\ g_main = "complete"
       /\ \A k \in TodoSet : k \in DOMAIN g_cache
       /\ g_todo # <<>> => g_files[GEOCODE_CACHE] = g_cache)

\* a filtered record whose address lookup ended with coordinates
LookupLocated(r) ==
    /\ PipeAddrKey(r) \in DOMAIN pl_cache
    /\ pl_cache[PipeAddrKey(r)].lat # ""
    /\ pl_cache[PipeAddrKey(r)].lon # ""

\* the cell of a row of the final export in a column it has
FinalCell(j, c) ==
    pl_final.rows[j][CHOOSE i \in 1..Len(pl_final.header) : pl_final.header[i] = c]

\* C22: at the end of a full run the final export holds exactly one row for
\* each record of the filtered file whose address lookup ended with
\* coordinates, in order, and no other row.  The filtered file holds rows of
\* the roster with an HCBS or ALF code, and every such roster row that passes
\* the state filter is in it (once for each npi and full address).
C22_ExportIsLocatedFiltered ==
    pl_pc = "end" =>
        LET located == SelectSeq(f_filtered, LookupLocated)
        IN  /\ Len(pl_final.rows) = Len(located)
            /\ \A j \in 1..Len(located) :
                  /\ FinalCell(j, "npi") = located[j].npi
                  /\ FinalCell(j, "address") = located[j].address
                  /\ FinalCell(j, "provider_type") = located[j].provider_type
                  /\ FinalCell(j, "lat") # ""
                  /\ FinalCell(j, "lon") # ""
            /\ \A i \in 1..Len(f_filtered) :
                  \E j \in 1..Len(f_roster) :
                      /\ MatchedSlots(f_roster[j]) # {}
                      /\ f_roster[j].npi = f_filtered[i].npi
                      /\ Strip(FillNa(f_roster[j].address)) = f_filtered[i].address
            /\ \A j \in 1..Len(f_roster) :
                  (MatchedSlots(f_roster[j]) # {} /\ PassesStates(f_roster[j], f_states)) =>
                      \E i \in 1..Len(f_filtered) :
                          DedupeKey(f_filtered[i]) =
                              DedupeKey(OutRow(IF f_states # NoStates
                                               THEN NormalizeState(f_roster[j])
                                               ELSE f_roster[j]))

====
